---- MODULE Spec2Model ----
(***************************************************************************)
(* A model of the metered-rs instrumentation library: the integer cells    *)
(* behind counters and gauges, the ExitGuard lifecycle that wraps a        *)
(* measured expression, the stock metrics and the rolling throughput       *)
(* tracker.                                                                *)
(***************************************************************************)
EXTENDS Integers, Naturals, Sequences, FiniteSets, TLC

(***************************************************************************)
(* Integer cells.  The macros impl_counter_for! / impl_gauge_for! /        *)
(* impl_blocks_for! stamp out the same code for u8 .. u128; the model      *)
(* instantiates it for u8, the width the repository's own tests use.       *)
(***************************************************************************)

\* Bit width of the modelled cell type ($int = u8).
W == 8

\* Number of values of $int.
Modulus == 2 ^ W

\* <$int>::MAX
MAX == Modulus - 1

\* Largest count handed to incr_by / decr_by by the arithmetic harness.
MaxCount == 513

\* The counts the harness draws from: around 0, around 2^W and beyond.
Counts == {0, 1, MAX, MAX + 1, MAX + 2, MaxCount}

\* The starting values the harness draws from.
StartValues == {0, 1, MAX - 1, MAX}

\* NumWrapper::<u8>::wrap, count reduced into the range of $int.
wrap_saturating(count) == IF count > MAX THEN MAX ELSE count

wrap(count) == count % (MAX + 1)

\* `count as $int`: a truncating cast.
as_int(count) == count % Modulus

\* $int::wrapping_add
wrapping_add(a, b) == (a + b) % Modulus

\* $int::wrapping_sub
wrapping_sub(a, b) == (a - b + Modulus) % Modulus

\* The outcome of one operation on a cell: the value it leaves and whether
\* the calling thread panicked.
Outcome(v, p) == [val |-> v, panicked |-> p]

\* The `+` operator on $int: on overflow it panics when the build has overflow
\* checks (debug profile) and wraps when it has not (release profile).
checked_add(a, b, checks) ==
    IF a + b > MAX
    THEN IF checks THEN Outcome(a, TRUE) ELSE Outcome((a + b) % Modulus, FALSE)
    ELSE Outcome(a + b, FALSE)

\* The `-` operator on $int, likewise.
checked_sub(a, b, checks) ==
    IF a < b
    THEN IF checks THEN Outcome(a, TRUE) ELSE Outcome((a - b + Modulus) % Modulus, FALSE)
    ELSE Outcome(a - b, FALSE)

\* atomic::Atomic::fetch_add with Ordering::Relaxed: one indivisible
\* read-modify-write that wraps and returns the previous value.
fetch_add_returns_new(v, num) == [cell |-> (v + num) % Modulus, prev |-> (v + num) % Modulus]

fetch_add(v, num) == [cell |-> (v + num) % Modulus, prev |-> v]

\* atomic::Atomic::fetch_sub with Ordering::Relaxed.
fetch_sub(v, num) == [cell |-> (v - num + Modulus) % Modulus, prev |-> v]

\* AtomicInt::incr / incr_by / decr / decr_by: cell and returned previous count.
AtomicInt_incr(v) == fetch_add(v, 1)

AtomicInt_incr_by(v, count) == fetch_add(v, count)

AtomicInt_decr(v) == fetch_sub(v, 1)

AtomicInt_decr_by(v, count) == fetch_sub(v, count)

\* impl Counter for Cell<$int>: incr_by
Cell_Counter_incr_by(v, count) == Outcome(wrapping_add(v, wrap(count)), FALSE)

\* impl Counter for AtomicInt<$int>: incr_by
AtomicInt_Counter_incr_by(v, count) ==
    Outcome(AtomicInt_incr_by(v, wrap(count)).cell, FALSE)

\* impl Gauge for Cell<$int>: incr, decr
Cell_Gauge_incr(v, checks) == checked_add(v, 1, checks)

Cell_Gauge_decr(v, checks) == checked_sub(v, 1, checks)

\* impl BatchGauge for Cell<$int>: incr_by, decr_by
Cell_BatchGauge_incr_by(v, count, checks) == checked_add(v, as_int(count), checks)

Cell_BatchGauge_decr_by(v, count, checks) == checked_sub(v, as_int(count), checks)

\* impl Gauge for AtomicInt<$int>: incr, decr
AtomicInt_Gauge_incr(v) == Outcome(AtomicInt_incr(v).cell, FALSE)

AtomicInt_Gauge_decr_noop(v) == Outcome(v, FALSE)

AtomicInt_Gauge_decr(v) == Outcome(AtomicInt_decr(v).cell, FALSE)

\* impl BatchGauge for AtomicInt<$int>: incr_by, decr_by
AtomicInt_BatchGauge_incr_by(v, count) ==
    Outcome(AtomicInt_incr_by(v, as_int(count)).cell, FALSE)

AtomicInt_BatchGauge_decr_by(v, count) ==
    Outcome(AtomicInt_decr_by(v, as_int(count)).cell, FALSE)

\* The model functions of num_wrapper.rs' property tests.
test_incr_by(cc, count) == Outcome(wrapping_add(cc, wrap(count)), FALSE)

test_decr_by(cc, count) == Outcome(wrapping_sub(cc, wrap(count)), FALSE)

\* Counter::incr, the trait's default method: incr_by(1).
Counter_incr(k, v) ==
    IF k = "CellCounter" THEN Cell_Counter_incr_by(v, 1)
    ELSE AtomicInt_Counter_incr_by(v, 1)

\* impl Clear for Cell<$int>: self.set(0)
Cell_Clear_clear(v) == 0

\* impl Clearable for Cell<$int>: self.get() == 0
Cell_Clearable_is_cleared(v) == v = 0

\* AtomicInt::get and AtomicInt::set: a load and a store, Ordering::Relaxed.
AtomicInt_get(v) == v

AtomicInt_set(v, new) == new

\* impl Clear for AtomicInt<$int>: set(0)
AtomicInt_Clear_clear_keeps(v) == v

AtomicInt_Clear_clear(v) == AtomicInt_set(v, 0)

\* impl Clearable for AtomicInt<$int>: get() == 0
AtomicInt_Clearable_is_cleared(v) == AtomicInt_get(v) = 0

\* The cell backends of the harness.
CounterKinds == {"CellCounter", "AtomicCounter"}

GaugeKinds == {"CellGauge", "AtomicGauge"}

Kinds == CounterKinds \cup GaugeKinds \cup {"NumWrapper"}

\* incr_by(count) on a cell of backend k holding v.
IncrBy(k, v, count, checks) ==
    CASE k = "CellCounter" -> Cell_Counter_incr_by(v, count)
      [] k = "AtomicCounter" -> AtomicInt_Counter_incr_by(v, count)
      [] k = "CellGauge" -> Cell_BatchGauge_incr_by(v, count, checks)
      [] k = "AtomicGauge" -> AtomicInt_BatchGauge_incr_by(v, count)
      [] OTHER -> test_incr_by(v, count)

\* decr_by(count) on a cell of backend k holding v (gauges and the test model).
DecrBy(k, v, count, checks) ==
    CASE k = "CellGauge" -> Cell_BatchGauge_decr_by(v, count, checks)
      [] k = "AtomicGauge" -> AtomicInt_BatchGauge_decr_by(v, count)
      [] OTHER -> test_decr_by(v, count)

\* incr() on a cell of backend k holding v.
Incr(k, v, checks) ==
    CASE k \in CounterKinds -> Counter_incr(k, v)
      [] k = "CellGauge" -> Cell_Gauge_incr(v, checks)
      [] k = "AtomicGauge" -> AtomicInt_Gauge_incr(v)
      [] OTHER -> Outcome(wrapping_add(v, 1), FALSE)

\* decr() on a cell of backend k holding v.
Decr(k, v, checks) ==
    CASE k = "CellGauge" -> Cell_Gauge_decr(v, checks)
      [] k = "AtomicGauge" -> AtomicInt_Gauge_decr(v)
      [] OTHER -> Outcome(wrapping_sub(v, 1), FALSE)


(***************************************************************************)
(* State.                                                                  *)
(***************************************************************************)

VARIABLES
    \* -- the arithmetic harness (one cell driven two ways) --
    kind,             \* backend of the cell under test
    x,                \* the value the cell starts with
    n,                \* the count given to incr_by / decr_by
    overflow_checks,  \* TRUE for a build with overflow checks (debug profile)
    scenario,         \* "incr", "decr" or "incr_decr"
    bulk,             \* the cell driven by incr_by / decr_by
    naive,            \* the cell driven by single incr() / decr() calls
    steps,            \* single calls made so far on naive
    stage,            \* progress of the calls on bulk
    bulk_panicked,    \* a call on bulk panicked
    naive_panicked,   \* a call on naive panicked
    \* -- one AtomicInt shared by several threads --
    acell,            \* the shared cell
    ainit,            \* the value it was constructed with
    alog,             \* the calls completed so far: thread, count, returned value
    \* -- measured scopes --
    attached,         \* the metrics attached to the scope, in enter order
    pc,               \* per thread: where it is in the measured scope
    guards,           \* per thread: stack of live ExitGuards (innermost last)
    result,           \* per thread: the value the wrapped expression produced
    how,              \* per thread: how its last scope ended
    calls,            \* per thread: scopes started
    hit_count,        \* HitCount.0
    error_count,      \* ErrorCount.0
    in_flight,        \* InFlight.0
    entered,          \* per metric: tokens produced by enter()
    by_result,        \* per metric: tokens consumed by ExitGuard::on_result
    by_leave,         \* per metric: tokens consumed by Drop (leave_scope)
    outcomes,         \* scopes ended so far, by outcome: Ok, Err, unwound
    pre,              \* per thread: the gauge read just before its enter
    quiet,            \* per thread: no other thread touched the gauge since
    response_time,    \* the histogram behind ResponseTime.0
    none_count,       \* NoneCount.0
    form,             \* how the metrics were attached: "macro" or "attribute"
    listed,           \* the metrics as listed in measure!([..]) or #[measure([..])]
    produced,         \* per thread: the value the wrapped expression produced
    advised,          \* the Advice values the exit observations returned so far
    order,            \* per thread: the hooks of its current scope, in firing order
    \* -- throughput tracker and time --
    tps,              \* the TxPerSec behind the AtomicTxPerSec mutex
    clock,            \* the monotonic clock, in the time source's units (ms)
    ev,               \* per window index: on_result calls that arrived in it
    twin,             \* a default-constructed tracker started when tps is cleared
    \* -- one histogram driven by a caller --
    hbound,           \* the bound given to with_bound
    hstage,           \* "new", "built", or "panicked" when with_bound panicked
    histo,            \* the histogram
    hprev,            \* the histogram before the last call on it
    hlast,            \* the last call on it: op, value, count
    hlog,             \* the values handed to record / record_n since the last clear
    hcleared,         \* clear() was called on it
    fresh,            \* a histogram built with the same bound when histo is cleared
    \* -- metrics cleared while scopes run --
    clears,           \* per metric: calls of its clear() so far
    entered_at_clear, \* per metric: scopes that had entered it at its last clear()
    gauge_at_clear,   \* the gauge read just before the last InFlight::clear
    entry_clock,      \* per thread: the clock when its scope entered ResponseTime
    \* -- one counter driven by a caller --
    counter_kind,     \* backend of the counter: Cell or AtomicInt
    counter,          \* its value
    written,          \* incr or incr_by was called since construction or the last clear
    counter_ops,      \* calls made on it so far
    counter_last,     \* the last call made on it, and the value it found
    \* -- a per-variant error breakdown --
    breakdown,        \* BazErrorCount: a counter per variant, LibErrorCount nested
    seen,             \* per result: results handed to on_result since the last clear
    breakdown_last,   \* the last call made on it, and the counters it found
    \* -- one AtomicHdrHistogram shared by several threads --
    inner,            \* the HdrHistogram behind the mutex; torn while a write is under way
    holder,           \* the thread holding the mutex, or "none"
    call,             \* per thread: the call it is in, and what it read on entry
    snapshots,        \* the clones histogram() has returned, and when
    committed,        \* the histogram after each completed record / clear, applied in turn
    \* -- the mutex of the AtomicTxPerSec, and mutexes taken by scopes --
    tx_holder,        \* the thread holding the mutex of the AtomicTxPerSec, or "none"
    tx_call,          \* per thread: the call it is in on the tracker, and how far it got
    tx_clears,        \* clear() calls started on the tracker
    held              \* per thread: the number of guards it had when it took a mutex, or 0

arithVars == <<kind, x, n, overflow_checks, scenario, bulk, naive, steps, stage,
               bulk_panicked, naive_panicked>>

atomicVars == <<acell, ainit, alog>>

scopeVars == <<attached, pc, guards, result, how, calls, hit_count, error_count,
               in_flight, entered, by_result, by_leave, outcomes, pre, quiet,
               response_time, none_count, form, listed, produced, advised, order>>

tpsVars == <<tps, clock, ev>>

histoVars == <<twin, hbound, hstage, histo, hprev, hlast, hlog, hcleared, fresh>>

clearVars == <<clears, entered_at_clear, gauge_at_clear>>

counterVars == <<counter_kind, counter, written, counter_ops, counter_last>>

breakdownVars == <<breakdown, seen, breakdown_last>>

\* The variables no step of a measured scope changes, and all those added to
\* the scopes' own.
lockVars == <<inner, holder, call, snapshots, committed>>

txVars == <<tx_holder, tx_call, tx_clears, held>>

harnessVars == <<clearVars, counterVars, breakdownVars, lockVars, txVars>>

extraVars == <<harnessVars, entry_clock>>

vars == <<arithVars, atomicVars, scopeVars, tpsVars, histoVars, extraVars>>

(***************************************************************************)
(* The arithmetic harness: one cell is driven by incr_by(n) / decr_by(n),  *)
(* a second one by n single incr() / decr() calls, as in the property      *)
(* tests of num_wrapper.rs.                                                *)
(***************************************************************************)

\* The scenarios a backend supports: counters cannot be decremented.
ScenariosOf(k) == IF k \in CounterKinds THEN {"incr"} ELSE {"incr", "decr", "incr_decr"}

ArithIdle ==
    /\ kind = "CellCounter" /\ x = 0 /\ n = 0 /\ overflow_checks = FALSE
    /\ scenario = "incr" /\ bulk = 0 /\ naive = 0 /\ steps = 0 /\ stage = "start"
    /\ bulk_panicked = FALSE /\ naive_panicked = FALSE

ArithInit ==
    /\ kind \in Kinds
    /\ x \in StartValues
    /\ n \in Counts
    /\ overflow_checks \in BOOLEAN
    /\ scenario \in ScenariosOf(kind)
    /\ bulk = x /\ naive = x /\ steps = 0 /\ stage = "start"
    /\ bulk_panicked = FALSE /\ naive_panicked = FALSE

\* The first call on bulk: incr_by(n), or decr_by(n) in the "decr" scenario.
BulkFirst ==
    /\ stage = "start"
    /\ LET o == IF scenario = "decr" THEN DecrBy(kind, bulk, n, overflow_checks)
                ELSE IncrBy(kind, bulk, n, overflow_checks)
       IN /\ bulk' = o.val
          /\ bulk_panicked' = o.panicked
          /\ stage' = IF o.panicked THEN "aborted"
                      ELSE IF scenario = "incr_decr" THEN "incremented" ELSE "done"
    /\ UNCHANGED <<kind, x, n, overflow_checks, scenario, naive, steps, naive_panicked>>
    /\ UNCHANGED <<atomicVars, scopeVars, tpsVars, histoVars>>
    /\ UNCHANGED extraVars

\* The second call of the "incr_decr" scenario: decr_by(n).
BulkSecond ==
    /\ stage = "incremented"
    /\ LET o == DecrBy(kind, bulk, n, overflow_checks)
       IN /\ bulk' = o.val
          /\ bulk_panicked' = o.panicked
          /\ stage' = IF o.panicked THEN "aborted" ELSE "done"
    /\ UNCHANGED <<kind, x, n, overflow_checks, scenario, naive, steps, naive_panicked>>
    /\ UNCHANGED <<atomicVars, scopeVars, tpsVars, histoVars>>
    /\ UNCHANGED extraVars

\* One single incr() or decr() on naive.
NaiveStep ==
    /\ scenario \in {"incr", "decr"}
    /\ steps < n
    /\ ~naive_panicked
    /\ LET o == IF scenario = "decr" THEN Decr(kind, naive, overflow_checks)
                ELSE Incr(kind, naive, overflow_checks)
       IN /\ naive' = o.val
          /\ naive_panicked' = o.panicked
    /\ steps' = steps + 1
    /\ UNCHANGED <<kind, x, n, overflow_checks, scenario, bulk, stage, bulk_panicked>>
    /\ UNCHANGED <<atomicVars, scopeVars, tpsVars, histoVars>>
    /\ UNCHANGED extraVars


(***************************************************************************)
(* Histogram and rolling throughput tracker.                               *)
(***************************************************************************)

\* Instant::ONE_SEC of StdInstant: the clock counts milliseconds.
ONE_SEC == 1000

\* The bound TxPerSec::default gives its histogram.
TPS_BOUND == 100000

\* Option<T>
None == [some |-> FALSE, v |-> 0]

Some(v) == [some |-> TRUE, v |-> v]

\* n copies of v, as a sequence.
Repeat(v, k) == [i \in 1..k |-> v]

\* The arguments HdrHistogram::with_bound hands to
\* hdrhistogram::Histogram::new_with_bounds(1, max_bound, 2).
LOWEST_DISCERNIBLE == 1

SIGFIG == 2

\* The smallest of s, 2s, 4s, ... that is greater than value.
RECURSIVE smallest_untrackable_value(_, _)
smallest_untrackable_value(s, value) ==
    IF s <= value THEN smallest_untrackable_value(2 * s, value) ELSE s

\* new_with_bounds keeps single-unit resolution up to 2 * 10^sigfig, rounded
\* up to a power of two: the number of sub-buckets of a bucket.
sub_bucket_count == smallest_untrackable_value(1, 2 * (10 ^ SIGFIG) - 1)

\* new_with_bounds refuses (CreationError) a lowest value below 1, a highest
\* value below twice the lowest and more than 5 significant digits.
CreationError(low, high, sigfig) == low < 1 \/ high < 2 * low \/ sigfig > 5

\* HdrHistogram::with_bound panics on a CreationError (`.expect`).
with_bound_never_panics(max_bound) == FALSE

with_bound_panics(max_bound) == CreationError(LOWEST_DISCERNIBLE, max_bound, SIGFIG)

\* HdrHistogram::with_bound: an empty histogram; samples lists the recorded
\* values in recording order.
HdrHistogram_with_bound(max_bound) == [bound |-> max_bound, samples |-> <<>>]

\* The first value beyond the counts array of a histogram covering `high`:
\* bucket k holds sub_bucket_count * 2^k values, and buckets are added until
\* `high` is covered.
counts_capacity(high) == smallest_untrackable_value(sub_bucket_count, high)

\* Width of the range of values the histogram cannot tell from `value`.
size_of_equivalent_value_range(value) ==
    smallest_untrackable_value(sub_bucket_count, value) \div sub_bucket_count

lowest_equivalent(value) ==
    (value \div size_of_equivalent_value_range(value)) * size_of_equivalent_value_range(value)

highest_equivalent(value) ==
    lowest_equivalent(value) + size_of_equivalent_value_range(value) - 1

median_equivalent(value) ==
    lowest_equivalent(value) + size_of_equivalent_value_range(value) \div 2

\* The value saturating_record counts for `value`: the value itself while it
\* indexes into the counts array, the highest trackable value beyond it.
saturate(h, value) == IF value >= counts_capacity(h.bound) THEN h.bound ELSE value

\* HdrHistogram::record
HdrHistogram_record(h, value) ==
    [h EXCEPT !.samples = Append(@, saturate(h, value))]

\* HdrHistogram::record_n
HdrHistogram_record_n_once(h, value, count) ==
    [h EXCEPT !.samples = Append(@, saturate(h, value))]

HdrHistogram_record_n(h, value, count) ==
    [h EXCEPT !.samples = @ \o Repeat(saturate(h, value), count)]

\* HdrHistogram::clear
HdrHistogram_clear_keeps(h) == h

HdrHistogram_clear(h) == [h EXCEPT !.samples = <<>>]

\* HdrHistogram::len
HdrHistogram_len(h) == Len(h.samples)

\* The values counted by the histogram, as a set.
recorded_values(h) == {h.samples[i] : i \in DOMAIN h.samples}

\* HdrHistogram::min: the lowest recorded value level, 0 when empty.
HdrHistogram_min(h) ==
    IF h.samples = <<>> THEN 0
    ELSE lowest_equivalent(CHOOSE v \in recorded_values(h) :
                               \A u \in recorded_values(h) : v <= u)

\* HdrHistogram::max: the highest recorded value level, 0 when empty.
HdrHistogram_max(h) ==
    IF h.samples = <<>> THEN 0
    ELSE highest_equivalent(CHOOSE v \in recorded_values(h) :
                                \A u \in recorded_values(h) : u <= v)

RECURSIVE sum_of_levels(_)
sum_of_levels(q) ==
    IF q = <<>> THEN 0 ELSE median_equivalent(Head(q)) + sum_of_levels(Tail(q))

\* HdrHistogram::mean, as the exact fraction num / den (0 / 1 when empty).
HdrHistogram_mean(h) ==
    IF h.samples = <<>> THEN [num |-> 0, den |-> 1]
    ELSE [num |-> sum_of_levels(h.samples), den |-> Len(h.samples)]

\* hdrhistogram's value_at_quantile for the quantile num / den, as p90 ..
\* p9999 call it: the level of the first sample, in value order, at which the
\* running count reaches the quantile's share of the total.
value_at_quantile(h, num, den) ==
    IF h.samples = <<>> THEN 0
    ELSE LET total == Len(h.samples)
             share == (num * total + den - 1) \div den
             count_at_quantile == IF share = 0 THEN 1 ELSE share
             at_most(v) == Cardinality({i \in DOMAIN h.samples :
                                           lowest_equivalent(h.samples[i]) <= lowest_equivalent(v)})
             hit == CHOOSE v \in recorded_values(h) :
                        /\ at_most(v) >= count_at_quantile
                        /\ \A u \in recorded_values(h) :
                               at_most(u) >= count_at_quantile =>
                                   lowest_equivalent(v) <= lowest_equivalent(u)
         IN highest_equivalent(hit)

\* Everything a caller can read from a histogram: len, min, max, mean and the
\* quantiles p90, p95, p99, p999, p9999.
observe(h) ==
    [len |-> HdrHistogram_len(h),
     min |-> HdrHistogram_min(h),
     max |-> HdrHistogram_max(h),
     mean |-> HdrHistogram_mean(h),
     p90 |-> value_at_quantile(h, 90, 100),
     p95 |-> value_at_quantile(h, 95, 100),
     p99 |-> value_at_quantile(h, 99, 100),
     p999 |-> value_at_quantile(h, 999, 1000),
     p9999 |-> value_at_quantile(h, 9999, 10000)]

\* The bounds the caller builds histograms with: the invalid 0 and 1, the
\* smallest accepted bound, a small bound and ResponseTime's 5 * 60 * 1000.
HistoBounds == {0, 1, 2, 300, 300000}

\* The values the caller records: small exact ones, one past the end of
\* single-unit resolution, the bound, and the last value inside and the first
\* value beyond the counts array.
HistoValuesFor(b) ==
    {0, 10, 20, 30, sub_bucket_count + 1,
     b, counts_capacity(b) - 1, counts_capacity(b)}

\* Samples the caller records in all.
MaxSamples == 3

NoHisto == [bound |-> 0, samples |-> <<>>]

NoCall == [op |-> "none", value |-> 0, count |-> 0]

HistoIdle ==
    /\ hbound = 0 /\ hstage = "new" /\ histo = NoHisto /\ hprev = NoHisto
    /\ hlast = NoCall /\ hlog = <<>> /\ hcleared = FALSE /\ fresh = NoHisto

HistoInit ==
    /\ hbound \in HistoBounds
    /\ hstage = "new" /\ histo = NoHisto /\ hprev = NoHisto
    /\ hlast = NoCall /\ hlog = <<>> /\ hcleared = FALSE /\ fresh = NoHisto

\* HdrHistogram::with_bound(hbound)
HistoConstruct ==
    /\ hstage = "new"
    /\ IF with_bound_panics(hbound)
       THEN hstage' = "panicked" /\ UNCHANGED histo
       ELSE hstage' = "built" /\ histo' = HdrHistogram_with_bound(hbound)
    /\ UNCHANGED <<twin, hbound, hprev, hlast, hlog, hcleared, fresh>>
    /\ UNCHANGED <<arithVars, atomicVars, scopeVars, tpsVars>>
    /\ UNCHANGED extraVars

\* histo.record(value)
HistoRecord(value) ==
    /\ hstage = "built"
    /\ Len(hlog) < MaxSamples
    /\ histo' = HdrHistogram_record(histo, value)
    /\ hprev' = histo
    /\ hlast' = [op |-> "record", value |-> value, count |-> 1]
    /\ hlog' = Append(hlog, value)
    /\ fresh' = IF hcleared THEN HdrHistogram_record(fresh, value) ELSE fresh
    /\ UNCHANGED <<twin, hbound, hstage, hcleared>>
    /\ UNCHANGED <<arithVars, atomicVars, scopeVars, tpsVars>>
    /\ UNCHANGED extraVars

\* histo.record_n(value, count)
HistoRecordN(value, count) ==
    /\ hstage = "built"
    /\ Len(hlog) + count <= MaxSamples
    /\ histo' = HdrHistogram_record_n(histo, value, count)
    /\ hprev' = histo
    /\ hlast' = [op |-> "record_n", value |-> value, count |-> count]
    /\ hlog' = hlog \o Repeat(value, count)
    /\ fresh' = IF hcleared THEN HdrHistogram_record_n(fresh, value, count) ELSE fresh
    /\ UNCHANGED <<twin, hbound, hstage, hcleared>>
    /\ UNCHANGED <<arithVars, atomicVars, scopeVars, tpsVars>>
    /\ UNCHANGED extraVars

\* histo.clear(), once, on a histogram holding samples.
HistoClear ==
    /\ hstage = "built"
    /\ ~hcleared
    /\ hlog # <<>>
    /\ histo' = HdrHistogram_clear(histo)
    /\ hprev' = histo
    /\ hlast' = [op |-> "clear", value |-> 0, count |-> 0]
    /\ hlog' = <<>>
    /\ hcleared' = TRUE
    /\ fresh' = HdrHistogram_with_bound(hbound)
    /\ UNCHANGED <<twin, hbound, hstage>>
    /\ UNCHANGED <<arithVars, atomicVars, scopeVars, tpsVars>>
    /\ UNCHANGED extraVars

\* TxPerSec::default
TxPerSec_default ==
    [hdr_histogram |-> HdrHistogram_with_bound(TPS_BOUND),
     start_time |-> None, last_window |-> 0, count |-> 0]

\* StdInstant::elapsed_time of an instant taken at `start`, read at `now`.
elapsed_time(start, now) == now - start

\* The windows update counts as empty when it closes a window.
empty_windows_none(this_window, last_window) == 0

empty_windows(this_window, last_window) == this_window - last_window - 1

\* TxPerSec::update
TxPerSec_update_flushes_first(t, now) ==
    IF t.start_time.some
    THEN LET this_window == elapsed_time(t.start_time.v, now) \div ONE_SEC
         IN IF this_window > t.last_window
            THEN [t EXCEPT !.hdr_histogram =
                               HdrHistogram_record_n(HdrHistogram_record(@, t.count), 0,
                                                     empty_windows(this_window, t.last_window)),
                           !.count = 0, !.last_window = this_window]
            ELSE t
    ELSE [t EXCEPT !.start_time = Some(now),
                   !.hdr_histogram = HdrHistogram_record(@, t.count)]

TxPerSec_update_keeps_window(t, now) ==
    IF t.start_time.some
    THEN LET this_window == elapsed_time(t.start_time.v, now) \div ONE_SEC
         IN IF this_window > t.last_window
            THEN [t EXCEPT !.hdr_histogram =
                               HdrHistogram_record_n(HdrHistogram_record(@, t.count), 0,
                                                     empty_windows(this_window, t.last_window)),
                           !.count = 0]
            ELSE t
    ELSE [t EXCEPT !.start_time = Some(now)]

TxPerSec_update_restarts(t, now) ==
    IF t.start_time.some
    THEN LET this_window == elapsed_time(t.start_time.v, now) \div ONE_SEC
         IN IF this_window > t.last_window
            THEN [t EXCEPT !.hdr_histogram =
                               HdrHistogram_record_n(HdrHistogram_record(@, t.count), 0,
                                                     empty_windows(this_window, t.last_window)),
                           !.count = 0, !.last_window = this_window]
            ELSE [t EXCEPT !.start_time = Some(now), !.last_window = 0]
    ELSE [t EXCEPT !.start_time = Some(now)]

TxPerSec_update(t, now) ==
    IF t.start_time.some
    THEN LET elapsed == elapsed_time(t.start_time.v, now)
             this_window == elapsed \div ONE_SEC
         IN IF this_window > t.last_window
            THEN LET recorded == HdrHistogram_record(t.hdr_histogram, t.count)
                     empty == empty_windows(this_window, t.last_window)
                 IN [t EXCEPT !.hdr_histogram =
                                   IF empty > 0
                                   THEN HdrHistogram_record_n(recorded, 0, empty)
                                   ELSE recorded,
                              !.count = 0,
                              !.last_window = this_window]
            ELSE t
    ELSE [t EXCEPT !.start_time = Some(now)]

\* TxPerSec::on_result; AtomicTxPerSec::on_result runs it under the mutex.
TxPerSec_on_result_no_count(t, now) == TxPerSec_update(t, now)

TxPerSec_on_result(t, now) ==
    LET u == TxPerSec_update(t, now) IN [u EXCEPT !.count = u.count + 1]

\* TxPerSec::on_result after update: self.count += 1
TxPerSec_count_skips(t) == t

TxPerSec_count(t) == [t EXCEPT !.count = @ + 1]

\* The i-th assignment of TxPerSec::clear
TxPerSec_clear_step(t, i) ==
    CASE i = 0 -> [t EXCEPT !.hdr_histogram = HdrHistogram_clear(@)]
      [] i = 1 -> [t EXCEPT !.start_time = None]
      [] i = 2 -> [t EXCEPT !.last_window = 0]
      [] i = 3 -> [t EXCEPT !.count = 0]

\* TxPerSec::clear
TxPerSec_clear_keeps_window(t) ==
    [t EXCEPT !.hdr_histogram = HdrHistogram_clear(@), !.start_time = None, !.count = 0]

TxPerSec_clear(t) ==
    [t EXCEPT !.hdr_histogram = HdrHistogram_clear(@),
              !.start_time = None, !.last_window = 0, !.count = 0]

\* The window, counted from the tracker's start time, an event at `now` falls in.
EventWindow(t, now) ==
    IF t.start_time.some THEN (now - t.start_time.v) \div ONE_SEC ELSE 0

(***************************************************************************)
(* The stock metrics.  A registry is the record of the metrics' states;    *)
(* an operation maps a registry to the registry it leaves.                 *)
(***************************************************************************)

MetricNames ==
    {"HitCount", "ErrorCount", "InFlight", "Throughput", "ResponseTime", "NoneCount"}

\* The values a wrapped expression produces: the two variants of a Result, and
\* the unit value of a method that returns nothing.
Results == {"Ok", "Err"}

Unit == "Unit"

\* The values of a wrapped expression of type Result<Option<T>, E>.
OptionResults == {"OkSome", "OkNone", "Err"}

\* The values of a wrapped expression of type Option<T>.
Options == {"Some", "None"}

Values == Results \cup {Unit} \cup OptionResults \cup Options

\* Result::is_err
is_err(r) == r = "Err"

\* The bound ResponseTime::default gives its histogram: 5 minutes.
RT_BOUND == 5 * 60 * ONE_SEC

\* HitCount::enter
HitCount_enter_noop(reg) == reg

HitCount_enter(reg) ==
    [reg EXCEPT !.hit_count = Counter_incr("AtomicCounter", @).val]

\* Clear for HitCount, ErrorCount, NoneCount: clears the counter.
HitCount_clear(reg) == [reg EXCEPT !.hit_count = AtomicInt_Clear_clear(@)]

ErrorCount_clear(reg) == [reg EXCEPT !.error_count = AtomicInt_Clear_clear(@)]

NoneCount_clear(reg) == [reg EXCEPT !.none_count = AtomicInt_Clear_clear(@)]

\* Clear for InFlight: does nothing.
InFlight_clear_resets(reg) == [reg EXCEPT !.in_flight = 0]

InFlight_clear(reg) == reg

\* Clear for Throughput and for ResponseTime: clears the tracker, the histogram.
Throughput_clear(reg) == [reg EXCEPT !.tps = TxPerSec_clear(@)]

ResponseTime_clear(reg) == [reg EXCEPT !.response_time = HdrHistogram_clear(@)]

\* Clear::clear of metric m.
Metric_clear(m, reg) ==
    CASE m = "HitCount" -> HitCount_clear(reg)
      [] m = "ErrorCount" -> ErrorCount_clear(reg)
      [] m = "NoneCount" -> NoneCount_clear(reg)
      [] m = "InFlight" -> InFlight_clear(reg)
      [] m = "Throughput" -> Throughput_clear(reg)
      [] OTHER -> ResponseTime_clear(reg)

\* ErrorCount::on_result
ErrorCount_on_result_always(reg, r) ==
    [reg EXCEPT !.error_count = Counter_incr("AtomicCounter", @).val]

ErrorCount_on_result(reg, r) ==
    IF is_err(r)
    THEN [reg EXCEPT !.error_count = Counter_incr("AtomicCounter", @).val]
    ELSE reg

\* InFlight::enter
InFlight_enter(reg) == [reg EXCEPT !.in_flight = AtomicInt_Gauge_incr(@).val]

\* InFlight::leave_scope
InFlight_leave_scope_noop(reg) == reg

InFlight_leave_scope(reg) == [reg EXCEPT !.in_flight = AtomicInt_Gauge_decr(@).val]

\* Throughput::leave_scope
Throughput_leave_scope_noop(reg, now) == reg

Throughput_leave_scope(reg, now) ==
    [reg EXCEPT !.tps = TxPerSec_on_result(@, now)]

\* NoneCount::on_result, for Result<Option<T>, E> and for Option<T>
NoneCount_on_result_always(reg, r) ==
    [reg EXCEPT !.none_count = Counter_incr("AtomicCounter", @).val]

NoneCount_on_result(reg, r) ==
    IF r = "OkNone" \/ r = "None"
    THEN [reg EXCEPT !.none_count = Counter_incr("AtomicCounter", @).val]
    ELSE reg

\* StdInstant::units: the whole milliseconds of a Duration, here in microseconds.
StdInstant_units(duration) == duration \div 1000

\* ResponseTime::default and ResponseTime::with_bound(Duration)
ResponseTime_default == HdrHistogram_with_bound(RT_BOUND)

ResponseTime_with_bound(bound) == HdrHistogram_with_bound(StdInstant_units(bound))

\* ResponseTime::enter: the token is the instant of entry.
ResponseTime_enter(now) == now

\* ResponseTime::leave_scope: records the time elapsed since the token.
ResponseTime_leave_scope_noop(reg, token, now) == reg

ResponseTime_leave_scope(reg, token, now) ==
    [reg EXCEPT !.response_time = HdrHistogram_record(@, elapsed_time(token, now))]

\* Enter::enter of metric m: the registry it leaves and the token it returns.
Metric_enter(m, reg, now) ==
    CASE m = "HitCount" -> [reg |-> HitCount_enter(reg), token |-> 0]
      [] m = "InFlight" -> [reg |-> InFlight_enter(reg), token |-> 0]
      [] m = "ResponseTime" -> [reg |-> reg, token |-> ResponseTime_enter(now)]
      [] OTHER -> [reg |-> reg, token |-> 0]

\* OnResult::leave_scope of metric m: the registry it leaves and the Advice
\* it returns; a metric that does not define it inherits the trait's default,
\* which does nothing and returns Advice::Return.
Metric_leave_scope_counts(m, reg, token, now) ==
    CASE m = "InFlight" -> [reg |-> InFlight_leave_scope(reg), advice |-> "Return"]
      [] m = "Throughput" -> [reg |-> Throughput_leave_scope(reg, now), advice |-> "Return"]
      [] m = "ResponseTime" ->
             [reg |-> ResponseTime_leave_scope(reg, token, now), advice |-> "Return"]
      [] m = "ErrorCount" -> [reg |-> ErrorCount_on_result(reg, "Err"), advice |-> "Return"]
      [] m = "NoneCount" -> [reg |-> NoneCount_on_result(reg, "None"), advice |-> "Return"]
      [] OTHER -> [reg |-> reg, advice |-> "Return"]

Metric_leave_scope(m, reg, token, now) ==
    CASE m = "InFlight" -> [reg |-> InFlight_leave_scope(reg), advice |-> "Return"]
      [] m = "Throughput" -> [reg |-> Throughput_leave_scope(reg, now), advice |-> "Return"]
      [] m = "ResponseTime" ->
             [reg |-> ResponseTime_leave_scope(reg, token, now), advice |-> "Return"]
      [] OTHER -> [reg |-> reg, advice |-> "Return"]

\* OnResult::on_result of metric m, which reads the result by reference; a
\* metric that does not define it inherits the trait's default, which calls
\* leave_scope.
Metric_on_result(m, reg, token, r, now) ==
    CASE m = "ErrorCount" -> [reg |-> ErrorCount_on_result(reg, r), advice |-> "Return"]
      [] m = "NoneCount" -> [reg |-> NoneCount_on_result(reg, r), advice |-> "Return"]
      [] OTHER -> Metric_leave_scope(m, reg, token, now)

\* OnResultOwned::on_result, as metric::on_result and ExitGuard::on_result
\* call it: the Advice of OnResult::on_result paired with the result.
OnResultOwned_on_result_err(m, reg, token, r, now) ==
    LET o == Metric_on_result(m, reg, token, r, now)
    IN [reg |-> o.reg, pair |-> <<o.advice, IF r = "OkNone" THEN "Err" ELSE r>>]

OnResultOwned_on_result(m, reg, token, r, now) ==
    LET o == Metric_on_result(m, reg, token, r, now)
    IN [reg |-> o.reg, pair |-> <<o.advice, r>>]

(***************************************************************************)
(* ExitGuard.  Each operation returns the guard and the registry it        *)
(* leaves, and how many times it called the metric's on_result and         *)
(* leave_scope.                                                            *)
(***************************************************************************)

\* ExitGuard::new
ExitGuard_new(m, reg, now) ==
    LET e == Metric_enter(m, reg, now)
    IN [guard |-> [metric |-> m, enter |-> Some(e.token)], reg |-> e.reg]

\* Drop for ExitGuard
ExitGuard_drop_unconditional(g, reg, now) ==
    [guard |-> [g EXCEPT !.enter = None],
     reg |-> Metric_leave_scope(g.metric, reg, g.enter.v, now).reg,
     leave_scope_calls |-> 1]

ExitGuard_drop(g, reg, now) ==
    IF g.enter.some
    THEN [guard |-> [g EXCEPT !.enter = None],
          reg |-> Metric_leave_scope(g.metric, reg, g.enter.v, now).reg,
          leave_scope_calls |-> 1]
    ELSE [guard |-> g, reg |-> reg, leave_scope_calls |-> 0]

\* ExitGuard::on_result, which takes the guard by value: the guard is dropped
\* when it returns.
ExitGuard_on_result_unobserved(g, reg, r, now) ==
    LET dropped == ExitGuard_drop(g, reg, now)
    IN [guard |-> dropped.guard,
        reg |-> dropped.reg,
        value |-> r,
        advice |-> "Return",
        on_result_calls |-> 0,
        leave_scope_calls |-> dropped.leave_scope_calls]

ExitGuard_on_result(g, reg, r, now) ==
    LET taken == [g EXCEPT !.enter = None]
        observed == IF g.enter.some
                    THEN OnResultOwned_on_result(g.metric, reg, g.enter.v, r, now)
                    ELSE [reg |-> reg, pair |-> <<"Return", r>>]
        dropped == ExitGuard_drop(taken, observed.reg, now)
    IN [guard |-> dropped.guard,
        reg |-> dropped.reg,
        value |-> observed.pair[2],
        advice |-> observed.pair[1],
        on_result_calls |-> IF g.enter.some THEN 1 ELSE 0,
        leave_scope_calls |-> dropped.leave_scope_calls]


(***************************************************************************)
(* Threads running measured scopes:                                        *)
(*   measure!([m1, ..., mk], expr)                                         *)
(* expands to nested blocks, each creating its guard before the inner      *)
(* block runs and handing the inner block's value to guard.on_result.      *)
(***************************************************************************)

Threads == {"t1", "t2", "t3"}

\* The threads that run the scopes measured by counters and a gauge.
ScopeThreads == {"t1", "t2"}

\* Scopes each thread runs.
MaxCalls == 2

\* The clock stops advancing here.
MaxTime == 3000

\* One advance of the clock.
TickMs == 500

Windows == 0..(MaxTime \div ONE_SEC)

\* The registry the metrics of the scope live in.
Registry ==
    [hit_count |-> hit_count, error_count |-> error_count,
     in_flight |-> in_flight, tps |-> tps,
     response_time |-> response_time, none_count |-> none_count]

StoreRegistry(reg) ==
    /\ hit_count' = reg.hit_count
    /\ error_count' = reg.error_count
    /\ in_flight' = reg.in_flight
    /\ tps' = reg.tps
    /\ response_time' = reg.response_time
    /\ none_count' = reg.none_count

\* measure!([m1, ..., mn], expr): the metrics from the outermost block to the
\* innermost, measure!(m1, measure!([m2, ..., mn], expr)).
RECURSIVE measure_array(_)
measure_array(list) ==
    IF Len(list) = 1 THEN list ELSE <<Head(list)>> \o measure_array(Tail(list))

\* #[measure([m1, ..., mn])]: measure_list wraps the expression, and then each
\* result, in the listed order, so each metric goes around those before it.
RECURSIVE measure_list(_, _)
measure_list(list, nest) ==
    IF list = <<>> THEN nest ELSE measure_list(Tail(list), <<Head(list)>> \o nest)

\* The metric lists of the scopes: test() of the demos, and a scope with a gauge.
AttachLists ==
    {<<"HitCount", "ErrorCount">>, <<"HitCount", "InFlight", "ErrorCount">>}

\* No thread in a scope; the metrics of `list` attached in form f, all of them
\* default-constructed but the response time, whose histogram is rt.
ScopeIdleWith(f, list, rt) ==
    /\ form = f
    /\ listed = list
    /\ attached = IF f = "attribute" THEN measure_list(list, <<>>) ELSE measure_array(list)
    /\ pc = [t \in Threads |-> "idle"]
    /\ guards = [t \in Threads |-> <<>>]
    /\ result = [t \in Threads |-> "Ok"]
    /\ how = [t \in Threads |-> "none"]
    /\ calls = [t \in Threads |-> 0]
    /\ hit_count = 0 /\ error_count = 0 /\ in_flight = 0
    /\ entered = [m \in MetricNames |-> 0]
    /\ by_result = [m \in MetricNames |-> 0]
    /\ by_leave = [m \in MetricNames |-> 0]
    /\ outcomes = [v \in Values \cup {"unwound"} |-> 0]
    /\ pre = [t \in Threads |-> 0]
    /\ quiet = [t \in Threads |-> FALSE]
    /\ response_time = rt
    /\ none_count = 0
    /\ produced = [t \in Threads |-> "Ok"]
    /\ advised = {}
    /\ order = [t \in Threads |-> <<>>]

\* Metrics default-constructed, no thread in a scope; the metrics of `list`
\* attached in form f.
ScopeIdleAs(f, list) == ScopeIdleWith(f, list, ResponseTime_default)

\* The metrics of `list` attached with measure!([..], expr).
ScopeIdle(list) == ScopeIdleAs("macro", list)

NoTwin == [on |-> FALSE, t |-> TxPerSec_default]

TpsIdle ==
    /\ tps = TxPerSec_default
    /\ clock = 0
    /\ ev = [w \in Windows |-> 0]
    /\ twin = NoTwin

AtomicIdle == acell = 0 /\ ainit = 0 /\ alog = <<>>

\* No metric was cleared yet.
ClearIdle ==
    /\ clears = [m \in MetricNames |-> 0]
    /\ entered_at_clear = [m \in MetricNames |-> 0]
    /\ gauge_at_clear = 0

\* A default-constructed counter nobody called yet.
CounterIdle ==
    /\ counter_kind = "CellCounter" /\ counter = 0 /\ written = FALSE
    /\ counter_ops = 0 /\ counter_last = [op |-> "new", before |-> 0]

\* enum LibError { Failure, BadInput }
LibErrors == {"Failure", "BadInput"}

\* enum BazError { Lib(#[nested] LibError), Io }
BazErrors ==
    {[variant |-> "Lib", nested |-> e] : e \in LibErrors}
        \cup {[variant |-> "Io", nested |-> "none"]}

\* The values of a method returning Result<(), BazError>.
BazOk == [is_err |-> FALSE, e |-> "none"]

BazErr(e) == [is_err |-> TRUE, e |-> e]

BazResults == {BazOk} \cup {BazErr(e) : e \in BazErrors}

\* LibErrorCount::default() and BazErrorCount::default(): the generated
\* structs hold one counter per variant, or the nested struct.
LibErrorCount_default == [failure |-> 0, bad_input |-> 0]

BazErrorCount_default == [lib |-> LibErrorCount_default, io |-> 0]

\* The generated ErrorBreakdownIncr::incr: one match arm per variant.
LibErrorCount_incr(c, err) ==
    CASE err = "Failure" -> [c EXCEPT !.failure = Counter_incr("AtomicCounter", @).val]
      [] err = "BadInput" -> [c EXCEPT !.bad_input = Counter_incr("AtomicCounter", @).val]

BazErrorCount_incr_outer(c, err) ==
    CASE err.variant = "Lib" -> [c EXCEPT !.io = Counter_incr("AtomicCounter", @).val]
      [] err.variant = "Io" -> [c EXCEPT !.io = Counter_incr("AtomicCounter", @).val]

BazErrorCount_incr(c, err) ==
    CASE err.variant = "Lib" -> [c EXCEPT !.lib = LibErrorCount_incr(@, err.nested)]
      [] err.variant = "Io" -> [c EXCEPT !.io = Counter_incr("AtomicCounter", @).val]

\* The generated OnResult::on_result
BazErrorCount_on_result(c, r) == IF r.is_err THEN BazErrorCount_incr(c, r.e) ELSE c

\* The generated Clear::clear: clear() on every field.
LibErrorCount_clear(c) ==
    [failure |-> AtomicInt_Clear_clear(c.failure),
     bad_input |-> AtomicInt_Clear_clear(c.bad_input)]

BazErrorCount_clear_shallow(c) == [lib |-> c.lib, io |-> AtomicInt_Clear_clear(c.io)]

BazErrorCount_clear(c) ==
    [lib |-> LibErrorCount_clear(c.lib), io |-> AtomicInt_Clear_clear(c.io)]

\* A default-constructed breakdown that has observed nothing.
BreakdownIdle ==
    /\ breakdown = BazErrorCount_default
    /\ seen = [r \in BazResults |-> 0]
    /\ breakdown_last = [op |-> "new", before |-> BazErrorCount_default]

\* AtomicHdrHistogram::with_bound: the mutex free, nothing recorded.
AtomicHdrHistogram_with_bound(max_bound) ==
    [h |-> HdrHistogram_with_bound(max_bound), torn |-> FALSE]

NoCallYet == [op |-> "none", value |-> 0, read |-> HdrHistogram_with_bound(RT_BOUND)]

LockIdle ==
    /\ inner = AtomicHdrHistogram_with_bound(RT_BOUND)
    /\ holder = "none"
    /\ call = [t \in Threads |-> NoCallYet]
    /\ snapshots = {}
    /\ committed = <<HdrHistogram_with_bound(RT_BOUND)>>

NoTxCall == [op |-> "none", step |-> 0]

\* AtomicTxPerSec::default: the mutex free; no scope holds a mutex.
TxIdle ==
    /\ tx_holder = "none"
    /\ tx_call = [t \in Threads |-> NoTxCall]
    /\ tx_clears = 0
    /\ held = [t \in Threads |-> 0]

ExtraIdle ==
    /\ ClearIdle /\ CounterIdle /\ BreakdownIdle /\ LockIdle /\ TxIdle
    /\ entry_clock = [t \in Threads |-> 0]

\* What a step of thread t that touches the gauge does to the bookkeeping of
\* the gauge's observers.
TouchGauge(t, m, entering) ==
    IF m = "InFlight"
    THEN /\ pre' = IF entering THEN [pre EXCEPT ![t] = in_flight] ELSE pre
         /\ quiet' = [u \in Threads |-> IF u = t THEN (IF entering THEN TRUE ELSE quiet[u])
                                        ELSE FALSE]
    ELSE UNCHANGED <<pre, quiet>>

\* What a step that feeds the throughput tracker does to the per-window tally.
TallyEvent(m) ==
    IF m = "Throughput"
    THEN ev' = [ev EXCEPT ![EventWindow(tps, clock)] = @ + 1]
    ELSE UNCHANGED ev

\* Thread t creates the guard of the next attached metric: ExitGuard::new.
Enter(t) ==
    /\ pc[t] \in {"idle", "entering"}
    /\ pc[t] = "idle" => calls[t] < MaxCalls
    /\ LET i == Len(guards[t]) + 1
           m == attached[i]
           made == ExitGuard_new(m, Registry, clock)
       IN /\ StoreRegistry(made.reg)
          /\ guards' = [guards EXCEPT ![t] = Append(@, made.guard)]
          /\ entered' = [entered EXCEPT ![m] = @ + 1]
          /\ pc' = [pc EXCEPT ![t] = IF i = Len(attached) THEN "running" ELSE "entering"]
          /\ TouchGauge(t, m, TRUE)
          /\ order' = [order EXCEPT ![t] = IF pc[t] = "idle" THEN <<<<"enter", m>>>>
                                           ELSE Append(@, <<"enter", m>>)]
    /\ calls' = IF pc[t] = "idle" THEN [calls EXCEPT ![t] = @ + 1] ELSE calls
    /\ UNCHANGED <<attached, result, how, by_result, by_leave, outcomes>>
    /\ UNCHANGED <<form, listed, produced, advised>>
    /\ entry_clock' = IF attached[Len(guards[t]) + 1] = "ResponseTime"
                      THEN [entry_clock EXCEPT ![t] = clock] ELSE entry_clock
    /\ UNCHANGED <<histoVars, arithVars, atomicVars, clock, ev>>
    /\ UNCHANGED harnessVars

\* The wrapped expression of thread t produces the value r.
Return(t, r) ==
    /\ pc[t] = "running"
    /\ result' = [result EXCEPT ![t] = r]
    /\ produced' = [produced EXCEPT ![t] = r]
    /\ pc' = [pc EXCEPT ![t] = "exiting"]
    /\ UNCHANGED <<attached, guards, how, calls, hit_count, error_count, in_flight,
                   entered, by_result, by_leave, outcomes, pre, quiet>>
    /\ UNCHANGED <<response_time, none_count, form, listed, advised, order>>
    /\ UNCHANGED <<histoVars, arithVars, atomicVars, tpsVars>>
    /\ UNCHANGED extraVars

\* The wrapped expression of thread t panics, returns early or is abandoned.
Unwind(t) ==
    /\ pc[t] = "running"
    /\ pc' = [pc EXCEPT ![t] = "unwinding"]
    /\ UNCHANGED <<attached, guards, result, how, calls, hit_count, error_count,
                   in_flight, entered, by_result, by_leave, outcomes, pre, quiet>>
    /\ UNCHANGED <<response_time, none_count, form, listed, produced, advised, order>>
    /\ UNCHANGED <<histoVars, arithVars, atomicVars, tpsVars>>
    /\ UNCHANGED extraVars

\* The innermost live guard of thread t receives the value: ExitGuard::on_result.
ExitStep(t) ==
    /\ pc[t] = "exiting"
    /\ LET g == guards[t][Len(guards[t])]
           m == g.metric
           done == ExitGuard_on_result(g, Registry, result[t], clock)
           last == Len(guards[t]) = 1
       IN /\ StoreRegistry(done.reg)
          /\ guards' = [guards EXCEPT ![t] = SubSeq(@, 1, Len(@) - 1)]
          /\ by_result' = [by_result EXCEPT ![m] = @ + done.on_result_calls]
          /\ by_leave' = [by_leave EXCEPT ![m] = @ + done.leave_scope_calls]
          /\ pc' = [pc EXCEPT ![t] = IF last THEN "idle" ELSE "exiting"]
          /\ how' = IF last THEN [how EXCEPT ![t] = "returned"] ELSE how
          /\ outcomes' = IF last THEN [outcomes EXCEPT ![done.value] = @ + 1] ELSE outcomes
          /\ TouchGauge(t, m, FALSE)
          /\ TallyEvent(m)
          /\ result' = [result EXCEPT ![t] = done.value]
          /\ advised' = advised \cup {done.advice}
          /\ order' = [order EXCEPT ![t] = Append(@, <<"exit", m>>)]
    /\ UNCHANGED <<attached, calls, entered, form, listed, produced>>
    /\ UNCHANGED <<histoVars, arithVars, atomicVars, clock>>
    /\ UNCHANGED extraVars

\* The innermost live guard of thread t is dropped by the unwinding: Drop.
DropStep(t) ==
    /\ pc[t] = "unwinding"
    /\ LET g == guards[t][Len(guards[t])]
           m == g.metric
           done == ExitGuard_drop(g, Registry, clock)
           last == Len(guards[t]) = 1
       IN /\ StoreRegistry(done.reg)
          /\ guards' = [guards EXCEPT ![t] = SubSeq(@, 1, Len(@) - 1)]
          /\ by_leave' = [by_leave EXCEPT ![m] = @ + done.leave_scope_calls]
          /\ pc' = [pc EXCEPT ![t] = IF last THEN "idle" ELSE "unwinding"]
          /\ how' = IF last THEN [how EXCEPT ![t] = "unwound"] ELSE how
          /\ outcomes' = IF last THEN [outcomes EXCEPT !.unwound = @ + 1] ELSE outcomes
          /\ TouchGauge(t, m, FALSE)
          /\ TallyEvent(m)
          /\ order' = [order EXCEPT ![t] = Append(@, <<"exit", m>>)]
    /\ UNCHANGED <<attached, result, calls, entered, by_result>>
    /\ UNCHANGED <<form, listed, produced, advised>>
    /\ UNCHANGED <<histoVars, arithVars, atomicVars, clock>>
    /\ UNCHANGED extraVars

\* clear() calls made while the scopes run, over all metrics.
MaxClears == 1

\* Some caller holding the registry calls Clear::clear of metric m.
ClearMetric(m) ==
    /\ clears["HitCount"] + clears["InFlight"] < MaxClears
    /\ StoreRegistry(Metric_clear(m, Registry))
    /\ clears' = [clears EXCEPT ![m] = @ + 1]
    /\ entered_at_clear' = [entered_at_clear EXCEPT ![m] = entered[m]]
    /\ gauge_at_clear' = IF m = "InFlight" THEN in_flight ELSE gauge_at_clear
    /\ UNCHANGED <<attached, pc, guards, result, how, calls, entered, by_result, by_leave,
                   outcomes, pre, quiet, form, listed, produced, advised, order>>
    /\ UNCHANGED <<histoVars, arithVars, atomicVars, clock, ev>>
    /\ UNCHANGED <<counterVars, breakdownVars, lockVars, entry_clock, txVars>>

\* Time passes.
Tick ==
    /\ clock + TickMs <= MaxTime
    /\ clock' = clock + TickMs
    /\ UNCHANGED <<tps, ev>>
    /\ UNCHANGED <<histoVars, arithVars, atomicVars, scopeVars>>
    /\ UNCHANGED extraVars

(***************************************************************************)
(* Several threads incrementing one shared AtomicInt counter.              *)
(***************************************************************************)

\* Calls on the shared cell, over all threads.
MaxOps == 3

\* The counts the threads pass.
AtomicCounts == {1, 2, MAX}

\* Thread t calls AtomicInt::incr_by(count); with count = 1 this is incr().
AtomicIncrBy(t, count) ==
    /\ Len(alog) < MaxOps
    /\ LET done == AtomicInt_incr_by(acell, count)
       IN /\ acell' = done.cell
          /\ alog' = Append(alog, [thread |-> t, api |-> "AtomicInt", count |-> count,
                                   prev |-> done.prev])
    /\ UNCHANGED ainit
    /\ UNCHANGED <<histoVars, arithVars, scopeVars, tpsVars>>
    /\ UNCHANGED extraVars

\* Thread t calls Counter::incr_by(count) of the trait, count a usize.
CounterIncrBy(t, count) ==
    /\ Len(alog) < MaxOps
    /\ acell' = AtomicInt_Counter_incr_by(acell, count).val
    /\ alog' = Append(alog, [thread |-> t, api |-> "Counter", count |-> wrap(count),
                             prev |-> acell])
    /\ UNCHANGED ainit
    /\ UNCHANGED <<histoVars, arithVars, scopeVars, tpsVars>>
    /\ UNCHANGED extraVars

(***************************************************************************)
(* One counter, and one per-variant error breakdown, driven by a caller.   *)
(***************************************************************************)

\* Calls made on the counter.
MaxCounterOps == 3

\* Results the breakdown observes between two clears.
MaxObserved == 3

\* Clear::clear and Clearable::is_cleared of a counter of backend k holding v.
Counter_clear(k, v) ==
    IF k = "CellCounter" THEN Cell_Clear_clear(v) ELSE AtomicInt_Clear_clear(v)

Counter_is_cleared(k, v) ==
    IF k = "CellCounter" THEN Cell_Clearable_is_cleared(v)
    ELSE AtomicInt_Clearable_is_cleared(v)

\* The caller calls incr().
CtrIncr ==
    /\ counter_ops < MaxCounterOps
    /\ counter' = Counter_incr(counter_kind, counter).val
    /\ written' = TRUE
    /\ counter_ops' = counter_ops + 1
    /\ counter_last' = [op |-> "incr", before |-> counter]
    /\ UNCHANGED <<counter_kind, breakdownVars, clearVars, lockVars, entry_clock, txVars>>
    /\ UNCHANGED <<arithVars, atomicVars, scopeVars, tpsVars, histoVars>>

\* The caller calls incr_by(count).
CtrIncrBy(count) ==
    /\ counter_ops < MaxCounterOps
    /\ counter' = IncrBy(counter_kind, counter, count, FALSE).val
    /\ written' = TRUE
    /\ counter_ops' = counter_ops + 1
    /\ counter_last' = [op |-> "incr_by", before |-> counter]
    /\ UNCHANGED <<counter_kind, breakdownVars, clearVars, lockVars, entry_clock, txVars>>
    /\ UNCHANGED <<arithVars, atomicVars, scopeVars, tpsVars, histoVars>>

\* The caller calls clear().
CtrClear ==
    /\ counter_ops < MaxCounterOps
    /\ counter' = Counter_clear(counter_kind, counter)
    /\ written' = FALSE
    /\ counter_ops' = counter_ops + 1
    /\ counter_last' = [op |-> "clear", before |-> counter]
    /\ UNCHANGED <<counter_kind, breakdownVars, clearVars, lockVars, entry_clock, txVars>>
    /\ UNCHANGED <<arithVars, atomicVars, scopeVars, tpsVars, histoVars>>

\* Results the breakdown has observed since its last clear.
SeenTotal ==
    seen[BazOk] + seen[BazErr([variant |-> "Io", nested |-> "none"])]
        + seen[BazErr([variant |-> "Lib", nested |-> "Failure"])]
        + seen[BazErr([variant |-> "Lib", nested |-> "BadInput"])]

\* A measured method returns r and the breakdown observes it.
BreakdownOnResult(r) ==
    /\ SeenTotal < MaxObserved
    /\ breakdown' = BazErrorCount_on_result(breakdown, r)
    /\ seen' = [seen EXCEPT ![r] = @ + 1]
    /\ breakdown_last' = [op |-> "on_result", before |-> breakdown]
    /\ UNCHANGED <<counterVars, clearVars, lockVars, entry_clock, txVars>>
    /\ UNCHANGED <<arithVars, atomicVars, scopeVars, tpsVars, histoVars>>

\* The caller clears the breakdown.
BreakdownClear ==
    /\ breakdown' = BazErrorCount_clear(breakdown)
    /\ seen' = [r \in BazResults |-> 0]
    /\ breakdown_last' = [op |-> "clear", before |-> breakdown]
    /\ UNCHANGED <<counterVars, clearVars, lockVars, entry_clock, txVars>>
    /\ UNCHANGED <<arithVars, atomicVars, scopeVars, tpsVars, histoVars>>

(***************************************************************************)
(* Several threads calling record, clear and histogram() on one            *)
(* AtomicHdrHistogram.  A write to the inner histogram takes two steps:    *)
(* it reads the histogram and starts writing, then finishes writing.       *)
(***************************************************************************)

\* Calls started on the shared histogram, over all threads.
MaxLockOps == 3

\* The values the threads record.
LockValues == {10, 20}

\* Mutex::lock returns once no thread holds the mutex.
Mutex_lock_unguarded(h) == TRUE

Mutex_lock(h) == h = "none"

\* The MutexGuard is dropped when the call returns: the mutex is free again.
Mutex_unlock_keeps(h) == h

Mutex_unlock(h) == "none"

CallsStarted ==
    Len(committed) - 1 + Cardinality(snapshots)
        + Cardinality({t \in Threads : call[t].op # "none"})

\* Thread t calls record(value) or clear(): it takes the mutex and starts
\* writing to the inner histogram.
LockedBegin(t, op, value) ==
    /\ call[t].op = "none"
    /\ CallsStarted < MaxLockOps
    /\ Mutex_lock(holder)
    /\ holder' = t
    /\ call' = [call EXCEPT ![t] = [op |-> op, value |-> value, read |-> inner.h]]
    /\ inner' = [inner EXCEPT !.torn = TRUE]
    /\ UNCHANGED <<snapshots, committed>>
    /\ UNCHANGED <<arithVars, atomicVars, scopeVars, tpsVars, histoVars>>
    /\ UNCHANGED <<clearVars, counterVars, breakdownVars, entry_clock, txVars>>

\* AtomicHdrHistogram::record and Clear::clear, applied to histogram h.
AtomicHdrHistogram_apply(c, h) ==
    IF c.op = "record" THEN HdrHistogram_record(h, c.value) ELSE HdrHistogram_clear(h)

\* Thread t finishes its write and the guard releases the mutex.
LockedEnd(t) ==
    /\ call[t].op # "none"
    /\ inner' = [h |-> AtomicHdrHistogram_apply(call[t], call[t].read), torn |-> FALSE]
    /\ holder' = "none"
    /\ call' = [call EXCEPT ![t] = NoCallYet]
    /\ committed' = Append(committed,
                           AtomicHdrHistogram_apply(call[t], committed[Len(committed)]))
    /\ UNCHANGED snapshots
    /\ UNCHANGED <<arithVars, atomicVars, scopeVars, tpsVars, histoVars>>
    /\ UNCHANGED <<clearVars, counterVars, breakdownVars, entry_clock, txVars>>

\* AtomicHdrHistogram::histogram: the clone of the inner histogram.
AtomicHdrHistogram_histogram(i) == i

\* Thread t calls histogram(): it takes the mutex, clones and releases.
Snapshot(t) ==
    /\ call[t].op = "none"
    /\ CallsStarted < MaxLockOps
    /\ Mutex_lock(holder)
    /\ snapshots' = snapshots \cup
           {[clone |-> AtomicHdrHistogram_histogram(inner), at |-> Len(committed)]}
    /\ UNCHANGED <<inner, holder, call, committed>>
    /\ UNCHANGED <<arithVars, atomicVars, scopeVars, tpsVars, histoVars>>
    /\ UNCHANGED <<clearVars, counterVars, breakdownVars, entry_clock, txVars>>

(***************************************************************************)
(* Several threads calling on_result and clear on one AtomicTxPerSec.      *)
(* Each call takes the mutex, then runs TxPerSec's method one assignment   *)
(* at a time, and releases the mutex with the last one.                    *)
(***************************************************************************)

\* Events recorded on a tracker in one window.
MaxPerWindow == 3

\* clear() calls made on the shared tracker.
MaxTxClears == 1

\* Thread t calls on_result() or clear(): self.inner.lock()
TxBegin(t, op) ==
    /\ tx_call[t].op = "none"
    /\ op = "on_result" => ev[EventWindow(tps, clock)] < MaxPerWindow
    /\ op = "clear" => tx_clears < MaxTxClears
    /\ Mutex_lock(tx_holder)
    /\ tx_holder' = t
    /\ tx_call' = [tx_call EXCEPT ![t] = [op |-> op, step |-> 0]]
    /\ tx_clears' = IF op = "clear" THEN tx_clears + 1 ELSE tx_clears
    /\ UNCHANGED <<held, tpsVars>>
    /\ UNCHANGED <<arithVars, atomicVars, scopeVars, histoVars>>
    /\ UNCHANGED <<clearVars, counterVars, breakdownVars, lockVars, entry_clock>>

\* Thread t runs the next assignment of the method it called: update and then
\* count += 1 for on_result, the four assignments of clear.
TxStep(t) ==
    /\ tx_call[t].op # "none"
    /\ LET c == tx_call[t]
           last == \/ c.op = "on_result" /\ c.step = 1
                   \/ c.op = "clear" /\ c.step = 3
       IN /\ tps' = CASE c.op = "on_result" /\ c.step = 0 -> TxPerSec_update(tps, clock)
                      [] c.op = "on_result" /\ c.step = 1 -> TxPerSec_count(tps)
                      [] c.op = "clear" -> TxPerSec_clear_step(tps, c.step)
          /\ ev' = CASE c.op = "on_result" /\ c.step = 0 ->
                            [ev EXCEPT ![EventWindow(tps, clock)] = @ + 1]
                     [] c.op = "clear" /\ last -> [w \in Windows |-> 0]
                     [] OTHER -> ev
          /\ tx_call' = [tx_call EXCEPT ![t] = IF last THEN NoTxCall
                                                ELSE [c EXCEPT !.step = @ + 1]]
          /\ tx_holder' = IF last THEN Mutex_unlock(tx_holder) ELSE tx_holder
    /\ UNCHANGED <<held, tx_clears, clock>>
    /\ UNCHANGED <<arithVars, atomicVars, scopeVars, histoVars>>
    /\ UNCHANGED <<clearVars, counterVars, breakdownVars, lockVars, entry_clock>>

(***************************************************************************)
(* Scopes whose metrics take their mutex to observe an exit: ResponseTime  *)
(* records into an AtomicHdrHistogram, Throughput into an AtomicTxPerSec.  *)
(***************************************************************************)

\* The stock metrics whose exit observation takes a mutex.
LockedMetrics == {"ResponseTime", "Throughput"}

\* Thread t is leaving its scope, guard by guard.
Leaving(t) == pc[t] \in {"exiting", "unwinding"}

TopMetric(t) == guards[t][Len(guards[t])].metric

\* Thread t may run the exit observation of its innermost guard: it holds
\* the metric's mutex if the metric has one, and no mutex otherwise.
Ready(t) ==
    /\ Leaving(t)
    /\ held[t] = IF TopMetric(t) \in LockedMetrics THEN Len(guards[t]) ELSE 0

\* The exit observation of thread t's innermost guard takes the mutex of the
\* guard's metric: self.0.lock() in record, self.inner.lock() in on_result.
ExitLock(t) ==
    /\ Leaving(t)
    /\ TopMetric(t) \in LockedMetrics
    /\ held[t] = 0
    /\ IF TopMetric(t) = "ResponseTime"
       THEN /\ Mutex_lock(holder)
            /\ holder' = t
            /\ UNCHANGED tx_holder
       ELSE /\ Mutex_lock(tx_holder)
            /\ tx_holder' = t
            /\ UNCHANGED holder
    /\ held' = [held EXCEPT ![t] = Len(guards[t])]
    /\ UNCHANGED <<tx_call, tx_clears, inner, call, snapshots, committed>>
    /\ UNCHANGED <<arithVars, atomicVars, scopeVars, histoVars, tpsVars>>
    /\ UNCHANGED <<clearVars, counterVars, breakdownVars, entry_clock>>

\* The observation is over: the MutexGuard it took is dropped.
ExitUnlock(t) ==
    /\ held[t] > Len(guards[t])
    /\ holder' = IF holder = t THEN Mutex_unlock(holder) ELSE holder
    /\ tx_holder' = IF tx_holder = t THEN Mutex_unlock(tx_holder) ELSE tx_holder
    /\ held' = [held EXCEPT ![t] = 0]
    /\ UNCHANGED <<tx_call, tx_clears, inner, call, snapshots, committed>>
    /\ UNCHANGED <<arithVars, atomicVars, scopeVars, histoVars, tpsVars>>
    /\ UNCHANGED <<clearVars, counterVars, breakdownVars, entry_clock>>

(***************************************************************************)
(* Specifications.                                                         *)
(***************************************************************************)

\* The arithmetic harness.
InitArith ==
    /\ ArithInit /\ AtomicIdle /\ ScopeIdle(<<"HitCount", "ErrorCount">>) /\ TpsIdle
    /\ HistoIdle
    /\ ExtraIdle

NextArith == BulkFirst \/ BulkSecond \/ NaiveStep

SpecArith == InitArith /\ [][NextArith]_vars

\* Threads sharing one AtomicInt.
InitAtomic ==
    /\ ArithIdle /\ ScopeIdle(<<"HitCount", "ErrorCount">>) /\ TpsIdle /\ HistoIdle
    /\ ainit \in StartValues /\ acell = ainit /\ alog = <<>>
    /\ ExtraIdle

NextAtomic ==
    \E t \in Threads :
        \/ \E count \in AtomicCounts : AtomicIncrBy(t, count)
        \/ \E count \in AtomicCounts \cup {MAX + 2} : CounterIncrBy(t, count)

SpecAtomic == InitAtomic /\ [][NextAtomic]_vars

\* Threads running scopes measured by counters and a gauge.
Init ==
    /\ ArithIdle /\ AtomicIdle /\ TpsIdle /\ HistoIdle
    /\ \E list \in AttachLists : ScopeIdle(list)
    /\ ExtraIdle

Next ==
    \E t \in ScopeThreads :
        \/ Enter(t)
        \/ \E r \in Results : Return(t, r)
        \/ Unwind(t)
        \/ ExitStep(t)
        \/ DropStep(t)

Spec == Init /\ [][Next]_vars


\* A throughput tracker driven directly (RefCell<TxPerSec>) by one caller.

\* A tracker in its first window with `c` events recorded at time 0.
TpsBusy(c) ==
    /\ tps = [TxPerSec_default EXCEPT !.start_time = Some(0), !.count = c]
    /\ clock = 0
    /\ ev = [w \in Windows |-> IF w = 0 THEN c ELSE 0]
    /\ twin = NoTwin

\* The histogram variables other than the reference tracker.
histoOnly == <<hbound, hstage, histo, hprev, hlast, hlog, hcleared, fresh>>

\* RecordThroughput::on_result for RefCell<TxPerSec>
TpsOnResult ==
    /\ ev[EventWindow(tps, clock)] < MaxPerWindow
    /\ tps' = TxPerSec_on_result(tps, clock)
    /\ ev' = [ev EXCEPT ![EventWindow(tps, clock)] = @ + 1]
    /\ twin' = IF twin.on THEN [twin EXCEPT !.t = TxPerSec_on_result(@, clock)] ELSE twin
    /\ UNCHANGED clock
    /\ UNCHANGED <<histoOnly, arithVars, atomicVars, scopeVars>>
    /\ UNCHANGED extraVars

\* Clear for RefCell<TxPerSec>, once; from then on a default-constructed
\* tracker receives the same events at the same times.
TpsClear ==
    /\ ~twin.on
    /\ tps' = TxPerSec_clear(tps)
    /\ ev' = [w \in Windows |-> 0]
    /\ twin' = [on |-> TRUE, t |-> TxPerSec_default]
    /\ UNCHANGED clock
    /\ UNCHANGED <<histoOnly, arithVars, atomicVars, scopeVars>>
    /\ UNCHANGED extraVars

\* The tracker starts default-constructed, or in a first window that already
\* holds as many events as its histogram can count, or one more.
InitTps ==
    /\ ArithIdle /\ AtomicIdle /\ ScopeIdle(<<"Throughput", "HitCount">>) /\ HistoIdle
    /\ \/ TpsIdle
       \/ \E c \in {counts_capacity(TPS_BOUND) - 1, counts_capacity(TPS_BOUND)} : TpsBusy(c)
    /\ ExtraIdle

NextTps == TpsOnResult \/ Tick \/ TpsClear

SpecTps == InitTps /\ [][NextTps]_vars

\* The throughput demo: every thread calls Biz::biz MaxCalls times on one shared
\* registry; #[measure([HitCount, Throughput])] enters Throughput first.
InitBiz ==
    /\ ArithIdle /\ AtomicIdle /\ TpsIdle /\ HistoIdle
    /\ ScopeIdleAs("attribute", <<"HitCount", "Throughput">>)
    /\ ExtraIdle

NextBiz ==
    \/ \E t \in Threads :
          \/ Enter(t)
          \/ Return(t, Unit)
          \/ ExitStep(t)
    \/ Tick

SpecBiz == InitBiz /\ [][NextBiz]_vars

\* One caller running scopes measured by every stock metric, attached with
\* measure!([..], expr) or with #[measure([..])], while time passes.
ExitThreads == {"t1"}

\* The metric lists, as written by the caller.
ExitLists ==
    {<<"HitCount", "InFlight", "ErrorCount", "NoneCount", "ResponseTime", "Throughput">>,
     <<"ResponseTime", "NoneCount">>}

\* The values the wrapped expression can produce under a metric list:
\* ErrorCount requires a Result, NoneCount an Option or a Result of an Option.
ValuesFor(list) ==
    IF "ErrorCount" \in {list[i] : i \in DOMAIN list} THEN OptionResults ELSE Options

InitExit ==
    /\ ArithIdle /\ AtomicIdle /\ TpsIdle /\ HistoIdle
    /\ \E f \in {"macro", "attribute"}, list \in ExitLists : ScopeIdleAs(f, list)
    /\ ExtraIdle

NextExit ==
    \/ \E t \in ExitThreads :
          \/ Enter(t)
          \/ \E r \in ValuesFor(listed) : Return(t, r)
          \/ Unwind(t)
          \/ ExitStep(t)
          \/ DropStep(t)
    \/ Tick

SpecExit == InitExit /\ [][NextExit]_vars

\* Threads running scopes measured by a counter and a gauge, while the
\* metrics are cleared.
ClearedMetrics == {"HitCount", "InFlight"}

InitClear ==
    /\ ArithIdle /\ AtomicIdle /\ TpsIdle /\ HistoIdle /\ ExtraIdle
    /\ ScopeIdle(<<"HitCount", "InFlight">>)

NextClear ==
    \/ \E t \in ScopeThreads :
          \/ Enter(t)
          \/ Return(t, Unit)
          \/ Unwind(t)
          \/ ExitStep(t)
          \/ DropStep(t)
    \/ \E m \in ClearedMetrics : ClearMetric(m)

SpecClear == InitClear /\ [][NextClear]_vars

\* One caller driving a counter of either backend and an error breakdown.
InitCounter ==
    /\ ArithIdle /\ AtomicIdle /\ TpsIdle /\ HistoIdle
    /\ ScopeIdle(<<"HitCount", "ErrorCount">>)
    /\ ClearIdle /\ BreakdownIdle /\ LockIdle /\ TxIdle
    /\ entry_clock = [t \in Threads |-> 0]
    /\ counter_kind \in CounterKinds /\ counter = 0 /\ written = FALSE
    /\ counter_ops = 0 /\ counter_last = [op |-> "new", before |-> 0]

NextCounter ==
    \/ CtrIncr
    \/ \E count \in Counts : CtrIncrBy(count)
    \/ CtrClear
    \/ \E r \in BazResults : BreakdownOnResult(r)
    \/ BreakdownClear

SpecCounter == InitCounter /\ [][NextCounter]_vars

\* Threads sharing one AtomicHdrHistogram.
InitLock ==
    /\ ArithIdle /\ AtomicIdle /\ TpsIdle /\ HistoIdle /\ ExtraIdle
    /\ ScopeIdle(<<"HitCount", "ErrorCount">>)

NextLock ==
    \E t \in Threads :
        \/ \E value \in LockValues : LockedBegin(t, "record", value)
        \/ LockedBegin(t, "clear", 0)
        \/ LockedEnd(t)
        \/ Snapshot(t)

SpecLock == InitLock /\ [][NextLock]_vars

\* Threads running scopes measured by ResponseTime, built by default or with
\* a bound of 1.2 s, while time passes.
RtDurations == {1200 * 1000 + 500}

InitRt ==
    /\ ArithIdle /\ AtomicIdle /\ TpsIdle /\ HistoIdle /\ ExtraIdle
    /\ \E rt \in {ResponseTime_default} \cup {ResponseTime_with_bound(d) : d \in RtDurations} :
           ScopeIdleWith("macro", <<"ResponseTime">>, rt)

NextRt ==
    \/ \E t \in ScopeThreads :
          \/ Enter(t)
          \/ Return(t, Unit)
          \/ ExitStep(t)
    \/ Tick

SpecRt == InitRt /\ [][NextRt]_vars

\* Threads sharing one AtomicTxPerSec, default-constructed or in a first
\* window that holds more events than its histogram can count, while time
\* passes.
InitTx ==
    /\ ArithIdle /\ AtomicIdle /\ HistoIdle /\ ExtraIdle
    /\ ScopeIdle(<<"Throughput", "HitCount">>)
    /\ TpsIdle \/ TpsBusy(counts_capacity(TPS_BOUND))

NextTx ==
    \/ \E t \in ScopeThreads :
          \/ TxBegin(t, "on_result")
          \/ TxBegin(t, "clear")
          \/ TxStep(t)
    \/ Tick

SpecTx == InitTx /\ [][NextTx]_vars

\* Threads running scopes measured by a lock-free metric and by the two
\* metrics that take a mutex; a thread that can move eventually does, and a
\* thread waiting for a mutex that keeps becoming free eventually gets it.
InitLive ==
    /\ ArithIdle /\ AtomicIdle /\ TpsIdle /\ HistoIdle /\ ExtraIdle
    /\ ScopeIdle(<<"HitCount", "ResponseTime", "Throughput">>)

\* The steps thread t takes by itself once it is in a scope.
Proceeds(t) ==
    \/ pc[t] = "entering" /\ Enter(t)
    \/ Ready(t) /\ ExitStep(t)
    \/ Ready(t) /\ DropStep(t)
    \/ ExitUnlock(t)

NextLive ==
    \E t \in ScopeThreads :
        \/ held[t] = 0 /\ Enter(t)
        \/ Return(t, Unit)
        \/ Unwind(t)
        \/ ExitLock(t)
        \/ Ready(t) /\ ExitStep(t)
        \/ Ready(t) /\ DropStep(t)
        \/ ExitUnlock(t)

SpecLive ==
    /\ InitLive
    /\ [][NextLive]_vars
    /\ \A t \in ScopeThreads : WF_vars(Proceeds(t)) /\ SF_vars(ExitLock(t))

\* One caller building a histogram, recording into it and clearing it.
InitHisto ==
    /\ ArithIdle /\ AtomicIdle /\ TpsIdle /\ ScopeIdle(<<"HitCount", "ErrorCount">>)
    /\ HistoInit
    /\ ExtraIdle

NextHisto ==
    \/ HistoConstruct
    \/ \E value \in HistoValuesFor(hbound) : HistoRecord(value)
    \/ \E value \in HistoValuesFor(hbound), count \in 1..2 : HistoRecordN(value, count)
    \/ HistoClear

SpecHisto == InitHisto /\ [][NextHisto]_vars


(***************************************************************************)
(* Properties.                                                             *)
(***************************************************************************)

RECURSIVE SumSeq(_)
SumSeq(q) == IF q = <<>> THEN 0 ELSE q[1] + SumSeq(Tail(q))

\* Threads holding a live guard (its token not yet taken) of metric m.
Holders(m) ==
    {t \in Threads : \E i \in DOMAIN guards[t] :
                        guards[t][i].metric = m /\ guards[t][i].enter.some}

AllIdle == \A t \in Threads : pc[t] = "idle"

\* C1: every token produced by enter() is consumed exactly once: for each
\* metric, the tokens produced equal the tokens still held by live guards plus
\* those consumed by ExitGuard::on_result plus those consumed by Drop; so no
\* guard consumes its token twice (on_result and then Drop) and none dies with
\* its token unconsumed, and once no scope is active every token was consumed.
C1_TokenConsumedExactlyOnce ==
    \A m \in MetricNames :
        /\ entered[m] = Cardinality(Holders(m)) + by_result[m] + by_leave[m]
        /\ AllIdle => entered[m] = by_result[m] + by_leave[m]
        /\ \A t \in Threads : \A i \in DOMAIN guards[t] : guards[t][i].enter.some

C1_Witness ==
    /\ AllIdle
    /\ by_result["InFlight"] >= 1
    /\ by_leave["InFlight"] >= 1
    /\ by_result["ErrorCount"] >= 1

\* C2: when a scope measured by InFlight ends by unwinding and no other thread
\* touched the gauge meanwhile, the gauge is back at the value it had just
\* before the scope was entered.
C2_UnwindRestoresGauge ==
    \A t \in Threads :
        (pc[t] = "idle" /\ how[t] = "unwound" /\ quiet[t]) => in_flight = pre[t]

C2_Witness ==
    \E t \in Threads :
        /\ pc[t] = "idle" /\ how[t] = "unwound" /\ quiet[t]
        /\ pre[t] = 1 /\ in_flight = 1

\* C3: in every state the gauge equals the number of scopes that were entered
\* and have not exited yet; with no scope active it is 0.
C3_GaugeCountsActiveScopes ==
    "InFlight" \in {attached[i] : i \in DOMAIN attached} =>
        /\ in_flight = Cardinality(Holders("InFlight"))
        /\ in_flight = entered["InFlight"] - by_result["InFlight"] - by_leave["InFlight"]
        /\ AllIdle => in_flight = 0

C3_Witness ==
    /\ in_flight = Cardinality(ScopeThreads)
    /\ by_leave["InFlight"] >= 1
    /\ by_result["InFlight"] >= 1

\* C4: once all invocations are over, none of them unwound, the error counter
\* equals the number of invocations that produced Err and the hit counter the
\* number of all invocations.
C4_HitAndErrorCounts ==
    (AllIdle /\ outcomes.unwound = 0) =>
        /\ error_count = outcomes.Err % Modulus
        /\ hit_count = (outcomes.Ok + outcomes.Err) % Modulus

C4_Witness ==
    /\ AllIdle /\ outcomes.unwound = 0
    /\ outcomes.Ok = 1 /\ outcomes.Err = 1
    /\ hit_count = 2 /\ error_count = 1

\* The counts of the first k logged calls, summed.
LoggedSum(k) == SumSeq([j \in 1..k |-> alog[j].count])

\* C5: the calls on a shared AtomicInt are totally ordered and none is lost:
\* each returns the value left by the calls before it, the cell holds the
\* initial value plus all increments modulo 2^W, and calls of incr() alone
\* return pairwise distinct values.
C5_AtomicIncrementsOrdered ==
    /\ \A k \in DOMAIN alog : alog[k].prev = (ainit + LoggedSum(k - 1)) % Modulus
    /\ acell = (ainit + LoggedSum(Len(alog))) % Modulus
    /\ (\A k \in DOMAIN alog : alog[k].count = 1) =>
           \A j, k \in DOMAIN alog : j # k => alog[j].prev # alog[k].prev

C5_Witness ==
    /\ Len(alog) = MaxOps
    /\ \E j, k \in DOMAIN alog : alog[j].thread # alog[k].thread
    /\ \A k \in DOMAIN alog : alog[k].count = 1
    /\ acell < ainit

\* The backends whose incr_by / decr_by reduce the count with NumWrapper or
\* hand it to an atomic fetch_add / fetch_sub.
WrappingKinds == Kinds \ {"CellGauge"}

C7_IncrDecrRestores ==
    scenario = "incr_decr" =>
        /\ stage # "aborted"
        /\ stage = "done" => bulk = x

\* C8: on every backend no call panics or saturates: incr() on a cell holding
\* MAX leaves 0 and decr() on a cell holding 0 leaves MAX.
C8_WrapsNeverPanics ==
    /\ ~naive_panicked
    /\ (scenario = "incr" /\ x = MAX /\ steps = 1) => naive = 0
    /\ (scenario = "decr" /\ x = 0 /\ steps = 1) => naive = MAX

\* The last window, before the current event, in which an event arrived.
LastTouched == CHOOSE w \in Windows : ev[w] > 0 /\ \A u \in Windows : ev[u] > 0 => u <= w

\* An event closes the window of the previous events: it arrives in a later
\* window than every event before it.
ClosesWindow ==
    /\ tps.start_time.some
    /\ \E w \in Windows : ev' = [ev EXCEPT ![w] = @ + 1]
    /\ \E w \in Windows : ev[w] > 0
    /\ EventWindow(tps, clock) > LastTouched

\* C9 as stated: the closing event records R itself, then K zeros.
C9_FlushRecordsR ==
    [][ClosesWindow =>
          tps'.hdr_histogram.samples =
              tps.hdr_histogram.samples
                  \o <<ev[LastTouched]>>
                  \o Repeat(0, EventWindow(tps, clock) - LastTouched - 1)]_vars

\* C9, amended: the event that closes a window holding R events, K whole
\* windows after it, records one sample, of value R while R is within the
\* histogram's counts array and of the histogram bound beyond it, followed by
\* exactly K samples of value 0, and nothing else.
C9_FlushRecordsSaturatedR ==
    [][ClosesWindow =>
          tps'.hdr_histogram.samples =
              tps.hdr_histogram.samples
                  \o <<IF ev[LastTouched] >= counts_capacity(TPS_BOUND)
                       THEN TPS_BOUND ELSE ev[LastTouched]>>
                  \o Repeat(0, EventWindow(tps, clock) - LastTouched - 1)]_vars

C9_Witness ==
    /\ tps.last_window = 3
    /\ tps.hdr_histogram.samples = <<2, 0, 0>>
    /\ ev[0] = 2 /\ ev[3] = 1

\* Calls the demo makes in all.
TotalCalls == Cardinality(Threads) * MaxCalls

Joined == \A t \in Threads : pc[t] = "idle" /\ calls[t] = MaxCalls

\* Windows in which at least one event arrived.
Touched == {w \in Windows : ev[w] > 0}

\* C10 as stated: after the join the histogram holds one sample per window
\* touched and its samples sum to the number of calls.
C10_HistogramHoldsAllCalls ==
    Joined =>
        /\ HdrHistogram_len(tps.hdr_histogram) = Cardinality(Touched)
        /\ SumSeq(tps.hdr_histogram.samples) = TotalCalls

\* C10, amended: after the join the histogram holds one sample per closed
\* window (the windows before the one of the last event, idle ones included),
\* the window of the last event is still open, and the samples plus the
\* running count of the open window sum to the number of calls.
C10_HistogramPlusOpenWindow ==
    Joined =>
        /\ HdrHistogram_len(tps.hdr_histogram) = tps.last_window
        /\ tps.last_window = LastTouched
        /\ tps.count >= 1
        /\ tps.count = ev[LastTouched]
        /\ SumSeq(tps.hdr_histogram.samples) + tps.count = TotalCalls
        /\ hit_count = TotalCalls % Modulus

C10_Witness ==
    /\ Joined
    /\ HdrHistogram_len(tps.hdr_histogram) = 3
    /\ \E i \in DOMAIN tps.hdr_histogram.samples : tps.hdr_histogram.samples[i] = 0
    /\ tps.count = 1

\* A step that records one event on the tracker.
IsEvent == \E w \in Windows : ev' = [ev EXCEPT ![w] = @ + 1]

\* C11: the first event on a default-constructed or freshly cleared tracker
\* sets the start timestamp to the current time and counts the event, and does
\* nothing else: the histogram stays empty and the window index stays 0.
C11_FirstEventOnlyStarts ==
    [][(tps = TxPerSec_default /\ IsEvent) =>
           /\ tps'.start_time = Some(clock)
           /\ tps'.count = 1
           /\ tps'.last_window = 0
           /\ tps'.hdr_histogram = HdrHistogram_with_bound(TPS_BOUND)]_vars

C11_Witness ==
    /\ twin.on
    /\ tps.start_time.some /\ tps.start_time.v > 0
    /\ tps.count = 1 /\ tps.last_window = 0
    /\ HdrHistogram_len(tps.hdr_histogram) = 0

\* C12: once clear() was called, the tracker is in the state of a
\* default-constructed tracker that received the events that arrived since,
\* at the same times: right after the clear it is the default tracker, and
\* later its start time, window index, running count and histogram are those
\* of the fresh tracker.
C12_ClearedIsFresh ==
    twin.on =>
        /\ tps = twin.t
        /\ (\A w \in Windows : ev[w] = 0) => tps = TxPerSec_default

C12_Witness ==
    /\ twin.on
    /\ tps.start_time.some /\ tps.start_time.v > 0
    /\ HdrHistogram_len(tps.hdr_histogram) >= 2
    /\ tps.count = 2

\* The histogram the last call would have left had it been given the bound
\* in place of its value.
AsIfBound ==
    IF hlast.op = "record" THEN HdrHistogram_record(hprev, hprev.bound)
    ELSE HdrHistogram_record_n(hprev, hprev.bound, hlast.count)

\* C13: record(B + k) and record_n(B + k, c), k >= 0, on a histogram of bound
\* B leave it in the observable state (len, min, max, mean, quantiles) that
\* record(B) and record_n(B, c) leave it in.
C13_SaturationIdempotent ==
    (hlast.op \in {"record", "record_n"} /\ hlast.value >= hprev.bound) =>
        observe(histo) = observe(AsIfBound)

\* C14: after clear() the sample count is 0, and from then on the histogram
\* reads (len, min, max, mean, quantiles) as a histogram freshly built with
\* the same bound that received the same calls.
C14_ClearedHistogramIsFresh ==
    /\ hlast.op = "clear" => HdrHistogram_len(histo) = 0
    /\ hcleared => observe(histo) = observe(fresh)

C14_Witness ==
    /\ hcleared
    /\ HdrHistogram_len(hprev) = 1
    /\ HdrHistogram_len(histo) = 2
    /\ HdrHistogram_max(histo) > HdrHistogram_min(histo)

\* Smallest and largest of the values handed to the histogram, and their sum.
MinOf(q) == CHOOSE v \in {q[i] : i \in DOMAIN q} : \A i \in DOMAIN q : v <= q[i]

MaxOf(q) == CHOOSE v \in {q[i] : i \in DOMAIN q} : \A i \in DOMAIN q : q[i] <= v

RECURSIVE SumOfRanges(_)
SumOfRanges(q) ==
    IF q = <<>> THEN 0 ELSE size_of_equivalent_value_range(Head(q)) + SumOfRanges(Tail(q))

\* An empty histogram received values that are each at most the bound.
RecordedWithinBound ==
    /\ hstage = "built"
    /\ hlog # <<>>
    /\ \A i \in DOMAIN hlog : hlog[i] <= hbound

\* C15 as stated: len() is the number of values recorded, min() the smallest,
\* max() the largest and mean() their arithmetic mean.
C15_ExactStatistics ==
    RecordedWithinBound =>
        /\ HdrHistogram_len(histo) = Len(hlog)
        /\ HdrHistogram_min(histo) = MinOf(hlog)
        /\ HdrHistogram_max(histo) = MaxOf(hlog)
        /\ HdrHistogram_mean(histo) = [num |-> SumSeq(hlog), den |-> Len(hlog)]

\* C15, amended: len() is the number of values recorded; min(), max() and
\* mean() are exact while every value is below the end of single-unit
\* resolution; beyond it min() is at most the smallest value and less than one
\* equivalent range below it, max() is at least the largest value and less
\* than one range above it, and mean() is off by at most half a range per
\* sample.
C15_StatisticsAtPrecision ==
    RecordedWithinBound =>
        LET lo == MinOf(hlog)
            hi == MaxOf(hlog)
            mean == HdrHistogram_mean(histo)
            off == mean.num - SumSeq(hlog)
        IN /\ HdrHistogram_len(histo) = Len(hlog)
           /\ HdrHistogram_min(histo) <= lo
           /\ lo - HdrHistogram_min(histo) < size_of_equivalent_value_range(lo)
           /\ HdrHistogram_max(histo) >= hi
           /\ HdrHistogram_max(histo) - hi < size_of_equivalent_value_range(hi)
           /\ mean.den = Len(hlog)
           /\ 2 * off <= SumOfRanges(hlog) /\ 2 * (0 - off) <= SumOfRanges(hlog)
           /\ (\A i \in DOMAIN hlog : hlog[i] < sub_bucket_count) =>
                  /\ HdrHistogram_min(histo) = lo
                  /\ HdrHistogram_max(histo) = hi
                  /\ off = 0

C15_Witness ==
    /\ hbound = 5 * 60 * 1000
    /\ hlog = <<10, 20, 30>>
    /\ hlast.op = "record_n"
    /\ HdrHistogram_len(histo) = 3
    /\ HdrHistogram_min(histo) = 10 /\ HdrHistogram_max(histo) = 30
    /\ HdrHistogram_mean(histo) = [num |-> 60, den |-> 3]

\* C16: with_bound panics exactly on the bounds new_with_bounds refuses
\* (below twice the lowest discernible value 1, that is 0 and 1); after the
\* panic there is no histogram and nothing was recorded; every histogram that
\* is recorded into was built with an accepted bound.
C16_InvalidBoundFailsAtConstruction ==
    /\ hstage = "panicked" => (hbound < 2 /\ histo = NoHisto /\ hlog = <<>> /\ hlast = NoCall)
    /\ hstage = "built" => hbound >= 2
    /\ hlast # NoCall => (hstage = "built" /\ hbound >= 2)

C16_Witness == hstage = "panicked" /\ hbound = 0

\* C17: a scope measured by ResponseTime that exits abnormally records
\* nothing: the histogram holds one sample per scope that handed a value to
\* ExitGuard::on_result, and none for the scopes whose guard was dropped.
C17_AbnormalExitSkipsRecording ==
    HdrHistogram_len(response_time) = by_result["ResponseTime"]

\* A step in which thread t drops a guard whose scope was abandoned.
Abandons(t) == pc[t] = "unwinding" /\ guards'[t] # guards[t]

\* C18: the exit path of an abandoned scope leaves the error counter and the
\* none counter unchanged.
C18_AbandonedLeavesCounters ==
    [][\A t \in Threads :
          Abandons(t) => (error_count' = error_count /\ none_count' = none_count)]_vars

C18_Witness ==
    /\ \E t \in ExitThreads : pc[t] = "idle" /\ how[t] = "unwound"
    /\ by_leave["ErrorCount"] = 1 /\ by_leave["NoneCount"] = 1
    /\ by_result["ErrorCount"] = 1 /\ by_result["NoneCount"] = 1
    /\ error_count = 1 /\ none_count = 0

\* C19: the value measure! evaluates to is the value the wrapped expression
\* produced: every guard hands on the value it was given, and every exit
\* observation returns Advice::Return.
C19_ResultPassesThrough ==
    /\ advised \subseteq {"Return"}
    /\ \A t \in Threads :
           (pc[t] = "exiting" \/ (pc[t] = "idle" /\ how[t] = "returned")) =>
               result[t] = produced[t]

C19_Witness ==
    \E t \in ExitThreads :
        /\ pc[t] = "idle" /\ how[t] = "returned"
        /\ Len(attached) = 6 /\ Len(order[t]) = 12
        /\ produced[t] = "OkNone" /\ result[t] = "OkNone"
        /\ none_count = 1 /\ advised = {"Return"}

\* The metrics whose hooks of kind k fired in thread t's scope, in firing order.
RECURSIVE HooksOf(_, _)
HooksOf(k, q) ==
    IF q = <<>> THEN <<>>
    ELSE IF Head(q)[1] = k THEN <<Head(q)[2]>> \o HooksOf(k, Tail(q))
    ELSE HooksOf(k, Tail(q))

\* C20: the enter hooks fire in the order the metrics are listed, and the exit
\* hooks in the exact reverse of the enter order.
C20_HooksInAttachmentOrder ==
    \A t \in Threads :
        LET enters == HooksOf("enter", order[t])
            exits == HooksOf("exit", order[t])
        IN /\ \A i \in DOMAIN enters : enters[i] = listed[i]
           /\ \A j \in DOMAIN exits : exits[j] = enters[Len(enters) + 1 - j]

\* The metrics of a sequence, as a set.
MetricsOf(q) == {q[i] : i \in DOMAIN q}

\* The scopes that ended by handing a value to their guards.
Returned ==
    outcomes["Ok"] + outcomes["Err"] + outcomes["OkSome"] + outcomes["OkNone"]
        + outcomes["Some"] + outcomes["None"] + outcomes[Unit]

\* C21: for the N metrics listed on a scope, while the wrapped expression
\* runs each metric's enter has been called exactly once in this invocation
\* and nothing else, and one guard per metric is live with its token; and a
\* value that became the scope's value went through the exit observation of
\* every metric exactly once.
C21_EveryMetricWrapsTheExpression ==
    \A t \in Threads :
        /\ pc[t] = "running" =>
              /\ Len(guards[t]) = Len(listed)
              /\ \A m \in MetricsOf(listed) :
                     /\ Cardinality({i \in DOMAIN guards[t] :
                                        guards[t][i].metric = m /\ guards[t][i].enter.some}) = 1
                     /\ Cardinality({i \in DOMAIN order[t] : order[t][i] = <<"enter", m>>}) = 1
              /\ Len(order[t]) = Len(listed)
        /\ (pc[t] = "idle" /\ how[t] = "returned") =>
              /\ guards[t] = <<>>
              /\ \A m \in MetricsOf(listed) :
                     /\ Cardinality({i \in DOMAIN order[t] : order[t][i] = <<"exit", m>>}) = 1
                     /\ by_result[m] = Returned

C21_Witness ==
    \E t \in ExitThreads :
        /\ pc[t] = "idle" /\ how[t] = "returned" /\ calls[t] = 2
        /\ Len(listed) = 6 /\ Returned = 2
        /\ by_result["Throughput"] = 2 /\ result[t] = "OkSome"

\* C22: when the wrapped expression of a scope panics, every listed metric,
\* all of them entered and none observed, runs its leave_scope exactly once
\* during the unwind and its on_result never: no guard is left, the gauge is
\* back at the value it had before the scope was entered, and the fallback of
\* the response time has recorded its sample.
C22_UnwindRunsEveryFallbackOnce ==
    \A t \in ExitThreads :
        (pc[t] = "idle" /\ how[t] = "unwound") =>
            /\ guards[t] = <<>>
            /\ \A m \in MetricsOf(listed) :
                   /\ Cardinality({i \in DOMAIN order[t] : order[t][i] = <<"exit", m>>}) = 1
                   /\ by_leave[m] = outcomes.unwound
                   /\ by_result[m] = Returned
            /\ in_flight = 0
            /\ "ResponseTime" \in MetricsOf(listed) =>
                   HdrHistogram_len(response_time) = Returned + outcomes.unwound

C22_Witness ==
    \E t \in ExitThreads :
        /\ pc[t] = "idle" /\ how[t] = "unwound"
        /\ Len(listed) = 6 /\ outcomes.unwound = 2
        /\ entered["InFlight"] = 2 /\ by_leave["InFlight"] = 2 /\ in_flight = 0
        /\ HdrHistogram_len(response_time) = 2

\* A step in which the guard of metric m in thread t receives the scope's value.
Observes(t, m) ==
    /\ pc[t] = "exiting"
    /\ guards'[t] # guards[t]
    /\ guards[t][Len(guards[t])].metric = m

\* C23: the none counter goes up by one (wrapping) in exactly the steps in
\* which NoneCount observes None or Ok(None): observing Some(_), Ok(Some(_))
\* or Err(_), and every other step, leaves it unchanged.  Likewise the error
\* counter goes up by one in exactly the steps in which ErrorCount observes Err.
C23_CountsIffNoneOrErr ==
    [][/\ none_count' =
             IF \E t \in Threads : Observes(t, "NoneCount") /\ result[t] \in {"None", "OkNone"}
             THEN wrapping_add(none_count, 1) ELSE none_count
       /\ error_count' =
             IF \E t \in Threads : Observes(t, "ErrorCount") /\ result[t] = "Err"
             THEN wrapping_add(error_count, 1) ELSE error_count]_vars

C23_Witness ==
    /\ AllIdle
    /\ outcomes["OkNone"] = 1 /\ outcomes["Err"] = 1
    /\ by_result["NoneCount"] = 2 /\ by_result["ErrorCount"] = 2
    /\ none_count = 1 /\ error_count = 1

\* C24: in every state the hit counter equals the number of scopes that have
\* entered HitCount since its last clear, whether they are still running,
\* returned or panicked: the enter hook adds one before the wrapped expression
\* runs and no exit hook changes the counter; so a counter never cleared is
\* at least the number of completed invocations.
C24_HitCountCountsEntries ==
    /\ hit_count = (entered["HitCount"] - entered_at_clear["HitCount"]) % Modulus
    /\ \A t \in Threads : pc[t] = "running" => entered["HitCount"] >= 1
    /\ clears["HitCount"] = 0 => hit_count >= Returned + outcomes.unwound

C24_Witness ==
    /\ AllIdle
    /\ clears["HitCount"] = 1 /\ entered_at_clear["HitCount"] = 2
    /\ outcomes.unwound >= 1 /\ Returned >= 1
    /\ entered["HitCount"] = 4 /\ hit_count = 2

\* C25: InFlight::clear leaves the gauge as it is; cleared or not, the gauge
\* equals the number of scopes in flight, and it is 0 once they have exited.
C25_ClearLeavesGauge ==
    /\ [][clears'["InFlight"] # clears["InFlight"] => in_flight' = in_flight]_vars
    /\ [](/\ in_flight = Cardinality(Holders("InFlight"))
          /\ AllIdle => in_flight = 0)

C25_Witness ==
    /\ clears["InFlight"] >= 1 /\ gauge_at_clear = Cardinality(ScopeThreads)
    /\ AllIdle /\ in_flight = 0

\* C26: is_cleared() of a counter is true exactly when neither incr nor
\* incr_by was called on it since it was constructed or last cleared.
C26_ClearedIffNotWritten ==
    Counter_is_cleared(counter_kind, counter) <=> ~written

\* The results with an error of each variant.
ErrFailure == BazErr([variant |-> "Lib", nested |-> "Failure"])

ErrBadInput == BazErr([variant |-> "Lib", nested |-> "BadInput"])

ErrIo == BazErr([variant |-> "Io", nested |-> "none"])

\* C27: each leaf counter of the breakdown equals the number of observed
\* results whose error selects that leaf, through the nested breakdown for a
\* #[nested] variant: an Err adds one to exactly that leaf and an Ok to none.
C27_OneLeafPerError ==
    /\ breakdown.lib.failure = seen[ErrFailure] % Modulus
    /\ breakdown.lib.bad_input = seen[ErrBadInput] % Modulus
    /\ breakdown.io = seen[ErrIo] % Modulus

C27_Witness ==
    /\ seen[ErrBadInput] = 1 /\ seen[BazOk] = 1 /\ seen[ErrIo] = 1
    /\ breakdown.lib.bad_input = 1 /\ breakdown.lib.failure = 0 /\ breakdown.io = 1

\* C30: right after clear() a counter reads 0 and is_cleared() holds, whatever
\* it held, and a second clear() changes nothing; right after clear() of the
\* breakdown every variant counter, those of the nested breakdown included,
\* reads 0.
C30_ClearResets ==
    /\ counter_last.op = "clear" =>
           /\ counter = 0
           /\ Counter_is_cleared(counter_kind, counter)
           /\ Counter_clear(counter_kind, counter) = counter
    /\ breakdown_last.op = "clear" =>
           /\ breakdown.lib.failure = 0 /\ breakdown.lib.bad_input = 0 /\ breakdown.io = 0
           /\ BazErrorCount_clear(breakdown) = breakdown

C30_Witness ==
    /\ counter_kind = "AtomicCounter"
    /\ counter_last = [op |-> "clear", before |-> MAX] /\ counter = 0
    /\ breakdown_last.op = "clear"
    /\ breakdown_last.before.lib.bad_input = 1 /\ breakdown_last.before.io = 2
    /\ breakdown = BazErrorCount_default

\* C28: calls on one AtomicHdrHistogram take effect one at a time: whenever
\* the mutex is free the histogram is what the completed calls give when
\* applied one after the other, so with no clear among n completed records it
\* holds n samples; at most one thread is inside a call; and every snapshot
\* histogram() returned is whole and equals the histogram after the calls
\* completed before it was taken, whatever was written later.
C28_CallsAreSerialized ==
    /\ holder = "none" =>
           /\ inner = [h |-> committed[Len(committed)], torn |-> FALSE]
           /\ (\A k \in DOMAIN committed : k > 1 => committed[k].samples # <<>>) =>
                  HdrHistogram_len(inner.h) = Len(committed) - 1
    /\ Cardinality({t \in Threads : call[t].op # "none"}) <= 1
    /\ \A s \in snapshots :
           /\ ~s.clone.torn
           /\ s.clone.h = committed[s.at]

C28_Witness ==
    /\ holder = "none" /\ Len(committed) = 3
    /\ inner.h.samples = <<20, 10>>
    /\ \E s \in snapshots : s.at = 2 /\ s.clone.h.samples = <<20>>

\* The smaller of two numbers.
Least(a, b) == IF a < b THEN a ELSE b

\* A step in which the response time takes the sample v of thread t's scope.
TakesSample(t, v) ==
    /\ Observes(t, "ResponseTime")
    /\ response_time' = [response_time EXCEPT !.samples = Append(@, v)]

\* C29: the histogram of ResponseTime changes only in the steps in which the
\* guard of a scope receives the scope's value, and there it gains exactly one
\* sample: the time between that scope's own enter and this step, whatever the
\* other scopes did and however long the expression was suspended, replaced by
\* the histogram's bound when it exceeds the bound.
C29_SampleIsElapsedSaturated ==
    [][IF \E t \in Threads : Observes(t, "ResponseTime")
       THEN \E t \in Threads :
                TakesSample(t, Least(clock - entry_clock[t], response_time.bound))
       ELSE response_time' = response_time]_vars

\* The same with the sample the histogram's saturating record keeps.
RT_SampleIsElapsedAsRecorded ==
    [][IF \E t \in Threads : Observes(t, "ResponseTime")
       THEN \E t \in Threads :
                TakesSample(t, saturate(response_time, clock - entry_clock[t]))
       ELSE response_time' = response_time]_vars

\* C31: when an event closes a window whose running count is above the
\* bound of the tracker's histogram, 100 000, the sample recorded for that
\* window is 100 000.
C31_ClosedWindowSaturatesAtBound ==
    [][(ClosesWindow /\ tps.count > TPS_BOUND) =>
           tps'.hdr_histogram.samples[HdrHistogram_len(tps.hdr_histogram) + 1] = TPS_BOUND]_vars

\* A step that clears the tracker.
IsClear == twin'.on /\ ~twin.on

\* C32: the histogram of the tracker holds as many samples as windows were
\* closed, hdr_histogram.len() = last_window, whatever events, clock advances
\* and clears came before; and no step but a clear lowers last_window.
C32_SamplesEqualClosedWindows ==
    /\ [](HdrHistogram_len(tps.hdr_histogram) = tps.last_window)
    /\ [][tps'.last_window < tps.last_window => IsClear]_vars

C32_Witness ==
    /\ twin.on
    /\ tps.last_window = 2
    /\ HdrHistogram_len(tps.hdr_histogram) = 2
    /\ tps.hdr_histogram.samples[2] = 0

\* C34: an event arriving in the window that is still open adds 1 to the
\* running count and changes nothing else of the tracker; and a step in which
\* only time passes changes nothing of the tracker, however many windows end.
C34_OpenWindowEventOnlyCounts ==
    [][/\ (IsEvent /\ tps.start_time.some /\ EventWindow(tps, clock) = tps.last_window) =>
              tps' = [tps EXCEPT !.count = @ + 1]
       /\ clock' # clock => tps' = tps]_vars

C34_Witness ==
    /\ tps.start_time.some
    /\ tps.last_window = 1 /\ tps.count = 2
    /\ tps.hdr_histogram.samples = <<1>>
    /\ EventWindow(tps, clock) = 3

\* Scopes measured by the throughput metric that were left, on any path.
ThroughputExits == entered["Throughput"] - Cardinality(Holders("Throughput"))

\* Events the tracker of the throughput metric has received.
ThroughputEvents == SumSeq(tps.hdr_histogram.samples) + tps.count

Fed == SumSeq([i \in 1..Cardinality(Windows) |-> ev[i - 1]])

\* No closed window held more events than the bound of the histogram.
NoWindowAboveBound == \A w \in Windows : w < tps.last_window => ev[w] <= TPS_BOUND

\* C33: whenever no call is under way on the shared tracker and no closed
\* window held more than 100 000 events, the samples of its histogram and the
\* running count of the open window sum to the number of on_result calls made
\* since construction or the last clear, however the callers interleaved.
C33_EventsAreConserved ==
    (tx_holder = "none" /\ NoWindowAboveBound) =>
        SumSeq(tps.hdr_histogram.samples) + tps.count = Fed

C33_Witness ==
    /\ tx_holder = "none" /\ tx_clears = 1
    /\ tps.hdr_histogram.samples = <<2, 0>>
    /\ tps.count = 1
    /\ Fed = 3

\* C35: whenever the mutex of the shared tracker is free, a tracker whose
\* start timestamp is unset has a running count of 0, a window index of 0
\* and an empty histogram; and at most one thread is inside a call, so no
\* caller finds a clear half applied.
C35_UnsetStartMeansFresh ==
    /\ Cardinality({t \in Threads : tx_call[t].op # "none"}) <= 1
    /\ (tx_holder = "none" /\ ~tps.start_time.some) =>
           /\ tps.count = 0
           /\ tps.last_window = 0
           /\ HdrHistogram_len(tps.hdr_histogram) = 0

C35_Witness ==
    /\ tx_holder = "none" /\ tx_clears = 1
    /\ ~tps.start_time.some
    /\ clock > 0
    /\ \E t \in ScopeThreads : tx_call[t].op = "none" /\ Mutex_lock(tx_holder)

\* Thread t is inside the enter calls or the exit observations of its scope.
Observing(t) == pc[t] = "entering" \/ Leaving(t)

\* Thread t is through with them: its expression runs, or it left the scope.
Through(t) == pc[t] \in {"running", "idle"} /\ held[t] = 0

\* C37: a thread never holds the two mutexes at once, and with scopes
\* contending for them every thread that started entering its metrics gets to
\* run its expression, and every thread whose expression returned or unwound
\* gets through all its exit observations and leaves its scope holding no
\* mutex.
C37_EveryScopeIsLeft ==
    /\ [](\A t \in Threads : ~(holder = t /\ tx_holder = t))
    /\ \A t \in ScopeThreads : Observing(t) ~> Through(t)

C37_Witness ==
    /\ holder = "t1" /\ tx_holder = "t2"
    /\ Leaving("t1") /\ Leaving("t2")
    /\ calls["t1"] = 2 /\ calls["t2"] = 2

====
